---- MODULE Spec2Model ----
(***************************************************************************)
(* Model of the local OAuth 2.0 authorization server of local-mcp:         *)
(*   src/src/local_mcp/auth.py      HtpasswdAuth (in-memory provider)      *)
(*   src/src/local_mcp/token_db.py  TokenDB (JSON-backed store)            *)
(* and of two of its clients:                                              *)
(*   src/src/local_mcp/watch.py     the stored tokens of the player CLI    *)
(*   src/src/local_mcp/lib/anime.py the episode history of the library     *)
(*                                                                         *)
(* Conventions.  Python None is the string "None" where the field is a     *)
(* str | None, and the record None where a call returns an object | None.  *)
(* A token string f"{prefix}{secrets.token_urlsafe(32)}" is the pair       *)
(* <<prefix, n>>, n the number of the draw: two draws never collide.       *)
(* time.time() is the variable now; a call reads it once.                  *)
(***************************************************************************)
EXTENDS Integers, Sequences, FiniteSets, TLC

VARIABLES
    _tokens,          \* HtpasswdAuth._tokens / TokenDB._tokens
    _auth_codes,      \* ._auth_codes
    _refresh_tokens,  \* ._refresh_tokens
    _clients,         \* ._clients
    _pending_auths,   \* ._pending_auths
    htpasswd,         \* contents of the credential file at _htpasswd_path
    _htpasswd,        \* HtpasswdAuth._htpasswd: the credential file as last loaded
    now,              \* time.time()
    draws,            \* number of secrets.token_urlsafe draws made so far
    ticks,            \* number of clock advances made so far
    consumed,         \* history: key -> number of times a call consumed it
    login_user,       \* history: code -> username the minting login verified
    issued,           \* history: access token -> [code, expires_at] of its minting
    swept,            \* history: keys a sweep removed
    revoked,          \* history: tokens revoke_token was called with
    registered,       \* history: client records register_client returned
    tasks,            \* concurrent exchange_authorization_code tasks of the event loop
    db_file,          \* contents of the JSON file at TokenDB._path
    db_call,          \* position of the exchange that runs on the TokenDB
    minted,           \* history: code -> the token strings its exchange generated
    TOKEN_FILE,       \* watch.py: contents of the CLI's auth.json
    valid_auth,       \* watch.py: what the last get_valid_auth call did and returned
    video_files,      \* anime.py: the video files under BASE_PATH and STALLED_DIR
    HISTORY_FILE,     \* anime.py: the lines of the history file
    HISTORY_LOCK_FILE,\* anime.py: the caller that holds the flock, or "free"
    callers           \* anime.py: position and locals of each build_library call

stores == <<_tokens, _auth_codes, _refresh_tokens, _clients, _pending_auths>>
history == <<consumed, login_user, issued, swept, revoked, registered>>
disk == <<db_file, db_call, minted>>
apps == <<TOKEN_FILE, valid_auth, video_files, HISTORY_FILE, HISTORY_LOCK_FILE, callers>>
outside == <<tasks, disk, apps>>
vars == <<_tokens, _auth_codes, _refresh_tokens, _clients, _pending_auths,
          htpasswd, _htpasswd, now, draws, ticks, consumed, login_user, issued, swept,
          revoked, registered, tasks, db_file, db_call, minted,
          TOKEN_FILE, valid_auth, video_files, HISTORY_FILE, HISTORY_LOCK_FILE, callers>>

-----------------------------------------------------------------------------
(* Bounds of the model *)
MaxHistory == 2
MaxDraws == 6
MaxTicks == 1
MaxPending == 2

(* Token lifetimes, auth.py:73-76 *)
ACCESS_TOKEN_LIFETIME == 30 * 24 * 3600
REFRESH_TOKEN_LIFETIME == 30 * 24 * 3600
AUTH_CODE_LIFETIME == 600
PENDING_AUTH_LIFETIME == 600

SERVER_BASE_URL == "http://localhost:3001"
PLACEHOLDER_URIS == <<"http://localhost/placeholder">>

-----------------------------------------------------------------------------
(* Values *)
None == [none |-> TRUE]
Empty == [k \in {} |-> None]

Put(f, k, v) == [x \in (DOMAIN f) \cup {k} |-> IF x = k THEN v ELSE f[x]]
Without(f, k) == [x \in (DOMAIN f) \ {k} |-> f[x]]
Get(f, k) == IF k \in DOMAIN f THEN f[k] ELSE None
Bump(f, k) == Put(f, k, IF k \in DOMAIN f THEN f[k] + 1 ELSE 1)

(* _generate_token: the i-th token drawn by the running call *)
_generate_token(prefix, i) == <<prefix, draws + i>>

(* Keys a caller can present: the ones the server handed out (a code where  *)
(* a code is expected, an access or refresh token where a token is), and   *)
(* strings it never handed out.                                            *)
UnknownKey == <<"nonexistent", 0>>
EmptyKey == <<"", 0>>
NoKey == <<"None", 0>>
KnownKeys ==
    DOMAIN _tokens \cup DOMAIN _auth_codes \cup DOMAIN _refresh_tokens
        \cup DOMAIN _pending_auths \cup DOMAIN consumed \cup DOMAIN issued \cup swept \cup revoked
CodeInputs == {k \in KnownKeys : k[1] = "code_"} \cup {UnknownKey}
TokenInputs == {k \in KnownKeys : k[1] \in {"at_", "rt_"}} \cup {UnknownKey}

(* Credentials a login POST submits: two valid pairs, a wrong password, *)
(* an unknown user.                                                    *)
CredentialInputs ==
    { [username |-> "admin", password |-> "pw1"],
      [username |-> "bob", password |-> "pw2"],
      [username |-> "admin", password |-> "pw2"],
      [username |-> "eve", password |-> "pw1"] }
Hash(password) == <<"hash", password>>

(* Inputs of authorize: the client and the AuthorizationParams *)
(* A string the caller chose itself is the pair <<string, 0>>. *)
NoScopes == <<"None">>
AuthorizeInputs ==
    { [client_id |-> <<"c1", 0>>,
       redirect_uri |-> "https://app/cb", scopes |-> <<"read">>,
       state |-> "xyz", code_challenge |-> "ch"],
      [client_id |-> NoKey,
       redirect_uri |-> "https://app/cb?x=1", scopes |-> NoScopes,
       state |-> "None", code_challenge |-> "None"] }
ScopeInputs == {<<>>, <<"write">>}
(* "?" in redirect_uri *)
HasQuery(uri) == uri = "https://app/cb?x=1"
(* Python truthiness of a str | None and of a list | None *)
Truthy(str) == str # "None" /\ str # ""
TruthyKey(key) == key # NoKey /\ key # EmptyKey
ScopesOrEmpty(scopes) == IF scopes = NoScopes THEN <<>> ELSE scopes

-----------------------------------------------------------------------------
(* _cleanup_expired, one store *)
Unexpired_inclusive(store, t) ==
    [k \in {x \in DOMAIN store : store[x].expires_at >= t} |-> store[k]]
Unexpired(store, t) ==
    [k \in {x \in DOMAIN store : store[x].expires_at > t} |-> store[k]]

(* _cleanup_expired: all four expirable stores, clients untouched *)
Expired(store, t) == DOMAIN store \ DOMAIN Unexpired(store, t)
_cleanup_expired_nopending ==
    /\ _tokens' = Unexpired(_tokens, now)
    /\ _auth_codes' = Unexpired(_auth_codes, now)
    /\ _refresh_tokens' = Unexpired(_refresh_tokens, now)
    /\ swept' = swept \cup Expired(_tokens, now) \cup Expired(_auth_codes, now)
                      \cup Expired(_refresh_tokens, now)
    /\ UNCHANGED <<_clients, _pending_auths>>
_cleanup_expired ==
    /\ _tokens' = Unexpired(_tokens, now)
    /\ _auth_codes' = Unexpired(_auth_codes, now)
    /\ _refresh_tokens' = Unexpired(_refresh_tokens, now)
    /\ _pending_auths' = Unexpired(_pending_auths, now)
    /\ swept' = swept \cup Expired(_tokens, now) \cup Expired(_auth_codes, now)
                      \cup Expired(_refresh_tokens, now) \cup Expired(_pending_auths, now)
    /\ UNCHANGED _clients

(* The objects the load_* calls build from a stored record *)
AuthorizationCodeOf_noscopes(stored) ==
    [code |-> stored.code, client_id |-> stored.client_id,
     redirect_uri |-> stored.redirect_uri, scopes |-> <<>>,
     code_challenge |-> stored.code_challenge, expires_at |-> stored.expires_at]
AuthorizationCodeOf(stored) ==
    [code |-> stored.code, client_id |-> stored.client_id,
     redirect_uri |-> stored.redirect_uri, scopes |-> stored.scopes,
     code_challenge |-> stored.code_challenge, expires_at |-> stored.expires_at]
AccessTokenOf_admin(stored) ==
    [token |-> stored.token, client_id |-> stored.client_id,
     scopes |-> stored.scopes, expires_at |-> stored.expires_at,
     claims |-> [user |-> "admin", sub |-> "admin"]]
AccessTokenOf(stored) ==
    [token |-> stored.token, client_id |-> stored.client_id,
     scopes |-> stored.scopes, expires_at |-> stored.expires_at,
     claims |-> [user |-> stored.user, sub |-> stored.user]]
RefreshTokenOf(stored) ==
    [token |-> stored.token, client_id |-> stored.client_id,
     scopes |-> stored.scopes, expires_at |-> stored.expires_at]

(* What load_authorization_code(code) returns when called in this state *)
LoadAuthorizationCode(code) ==
    LET live == Unexpired(_auth_codes, now)
    IN  IF code \in DOMAIN live THEN AuthorizationCodeOf(live[code]) ELSE None
(* What load_access_token(token) returns when called in this state *)
LoadAccessToken(token) ==
    LET live == Unexpired(_tokens, now)
    IN  IF token \in DOMAIN live THEN AccessTokenOf(live[token]) ELSE None
(* What load_refresh_token(token) returns when called in this state *)
LoadRefreshToken(token) ==
    LET live == Unexpired(_refresh_tokens, now)
    IN  IF token \in DOMAIN live THEN RefreshTokenOf(live[token]) ELSE None

-----------------------------------------------------------------------------
(* The credential file.  _load_htpasswd creates it, with user admin and a  *)
(* freshly drawn password, when it does not exist.                         *)
GeneratedPassword == "generated"
DefaultHtpasswd ==
    [exists |-> TRUE, users |-> [u \in {"admin"} |-> Hash(GeneratedPassword)]]
InitialHtpasswd ==
    [exists |-> TRUE, users |-> [u \in {"admin", "bob"} |->
                                    IF u = "admin" THEN Hash("pw1") ELSE Hash("pw2")]]
_load_htpasswd(file) == IF file.exists THEN file ELSE DefaultHtpasswd

(* HtpasswdFile.check_password: None for an unknown user, else the verdict. *)
(* A password drawn by this very call is never the one submitted with it.  *)
check_password(file, fresh, username, password) ==
    IF username \notin DOMAIN file.users THEN "None"
    ELSE IF fresh THEN "False"
    ELSE IF file.users[username] = Hash(password) THEN "True" ELSE "False"

(* _verify_user: the value returned (the file is reloaded first) *)
_verify_user_cached(username, password) ==
    check_password(_htpasswd, FALSE, username, password)
_verify_user(username, password) ==
    check_password(_load_htpasswd(htpasswd), ~htpasswd.exists, username, password)

-----------------------------------------------------------------------------
(* The tasks of the event loop that race for a code *)
Tasks == {"task1", "task2"}
IdleTask == [pc |-> "idle"]

(* The processes that call build_library or sync_history *)
Callers == {"caller1", "caller2"}

(* The token file before the first save, and a TokenDB with no call running *)
MissingFile == [exists |-> FALSE]
IdleCall == [pc |-> "idle"]

Init ==
    /\ _tokens = Empty
    /\ _auth_codes = Empty
    /\ _refresh_tokens = Empty
    /\ _clients = Empty
    /\ _pending_auths = Empty
    /\ htpasswd = InitialHtpasswd
    /\ _htpasswd = InitialHtpasswd
    /\ now = 0
    /\ draws = 0
    /\ ticks = 0
    /\ consumed = Empty
    /\ login_user = Empty
    /\ issued = Empty
    /\ swept = {}
    /\ revoked = {}
    /\ registered = {}
    /\ tasks = [t \in Tasks |-> IdleTask]
    /\ db_file = MissingFile
    /\ db_call = IdleCall
    /\ minted = Empty
    /\ TOKEN_FILE = MissingFile
    /\ valid_auth = None
    /\ video_files = {}
    /\ HISTORY_FILE = <<>>
    /\ HISTORY_LOCK_FILE = "free"
    /\ callers = [c \in Callers |-> [pc |-> "idle"]]

(* The clock advances between calls. *)
Tick ==
    /\ ticks < MaxTicks
    /\ \E d \in {AUTH_CODE_LIFETIME, ACCESS_TOKEN_LIFETIME} : now' = now + d
    /\ ticks' = ticks + 1
    /\ UNCHANGED <<stores, htpasswd, _htpasswd, draws, history, outside>>

-----------------------------------------------------------------------------
(* get_client, auth.py:289-297 *)
PermissiveClient(client_id, client_secret, redirect_uris, client_name) ==
    [client_id |-> client_id, client_secret |-> client_secret,
     redirect_uris |-> redirect_uris, client_name |-> client_name]
ClientsAfterGet_overwrite(client_id) ==
    Put(_clients, client_id,
        PermissiveClient(client_id, NoKey, PLACEHOLDER_URIS, "None"))
ClientsAfterGet(client_id) ==
    IF client_id \notin DOMAIN _clients
    THEN Put(_clients, client_id,
             PermissiveClient(client_id, NoKey, PLACEHOLDER_URIS, "None"))
    ELSE _clients
GetClientResult(client_id) == Get(ClientsAfterGet(client_id), client_id)
get_client_call(client_id) ==
    /\ _clients' = ClientsAfterGet(client_id)
    /\ UNCHANGED <<_tokens, _auth_codes, _refresh_tokens, _pending_auths,
                   htpasswd, _htpasswd, now, draws, ticks, history>>
GetClientInputs == {<<"c1", 0>>, <<"c2", 0>>, EmptyKey} \cup DOMAIN _clients
get_client ==
    \E client_id \in GetClientInputs :
        get_client_call(client_id) /\ UNCHANGED outside

(* register_client, auth.py:299-311 *)
ClientInfoInputs ==
    { [client_id |-> NoKey, redirect_uris |-> NoScopes, client_name |-> "None"],
      [client_id |-> EmptyKey, redirect_uris |-> <<>>, client_name |-> "None"],
      [client_id |-> <<"c1", 0>>, redirect_uris |-> <<"https://app/cb">>,
       client_name |-> "app"] }
RegisterClientResult_keepsecret(client_info) ==
    LET given == TruthyKey(client_info.client_id)
        client_id == IF given THEN client_info.client_id
                     ELSE _generate_token("client_", 1)
        client_secret == IF client_id \in DOMAIN _clients
                         THEN _clients[client_id].client_secret
                         ELSE _generate_token("secret_", IF given THEN 1 ELSE 2)
    IN  PermissiveClient(
            client_id, client_secret,
            IF client_info.redirect_uris \in {NoScopes, <<>>}
                THEN PLACEHOLDER_URIS ELSE client_info.redirect_uris,
            client_info.client_name)
RegisterClientResult(client_info) ==
    LET given == TruthyKey(client_info.client_id)
        client_id == IF given THEN client_info.client_id
                     ELSE _generate_token("client_", 1)
        client_secret == _generate_token("secret_", IF given THEN 1 ELSE 2)
    IN  PermissiveClient(
            client_id, client_secret,
            IF client_info.redirect_uris \in {NoScopes, <<>>}
                THEN PLACEHOLDER_URIS ELSE client_info.redirect_uris,
            client_info.client_name)
register_client_call(client_info) ==
    LET n == IF TruthyKey(client_info.client_id) THEN 1 ELSE 2
        client == RegisterClientResult(client_info)
    IN  /\ draws + n <= MaxDraws
        /\ draws' = draws + n
        /\ _clients' = Put(_clients, client.client_id, client)
        /\ registered' = registered \cup {client}
        /\ UNCHANGED <<_tokens, _auth_codes, _refresh_tokens, _pending_auths,
                       htpasswd, _htpasswd, now, ticks, consumed, login_user, issued, swept,
                       revoked>>
register_client ==
    \E client_info \in ClientInfoInputs :
        register_client_call(client_info) /\ UNCHANGED outside

(* authorize, auth.py:313-330 *)
PendingAuthOf_nostate(params, t) ==
    [client_id |-> IF TruthyKey(params.client_id) THEN params.client_id ELSE EmptyKey,
     redirect_uri |-> params.redirect_uri,
     scopes |-> ScopesOrEmpty(params.scopes),
     state |-> "None",
     code_challenge |-> params.code_challenge,
     expires_at |-> t + PENDING_AUTH_LIFETIME]
PendingAuthOf(params, t) ==
    [client_id |-> IF TruthyKey(params.client_id) THEN params.client_id ELSE EmptyKey,
     redirect_uri |-> params.redirect_uri,
     scopes |-> ScopesOrEmpty(params.scopes),
     state |-> params.state,
     code_challenge |-> params.code_challenge,
     expires_at |-> t + PENDING_AUTH_LIFETIME]
AuthorizeResult(params) ==
    <<SERVER_BASE_URL, "/login?pending=", _generate_token("pending_", 1)>>
authorize_call(params) ==
    LET pending_id == _generate_token("pending_", 1)
    IN  /\ draws + 1 <= MaxDraws
        /\ draws' = draws + 1
        /\ _pending_auths' = Put(_pending_auths, pending_id, PendingAuthOf(params, now))
        /\ UNCHANGED <<_tokens, _auth_codes, _refresh_tokens, _clients,
                       htpasswd, _htpasswd, now, ticks, history>>
authorize ==
    \E params \in AuthorizeInputs : authorize_call(params) /\ UNCHANGED outside

-----------------------------------------------------------------------------
(* _handle_login, auth.py:138-180.  The request: its method, the pending   *)
(* id in the query string or in the form, and the credentials in the form. *)
(* Everything after the form has been read runs without suspension.        *)
PendingInputs ==
    {k \in KnownKeys : k[1] = "pending_"} \cup {UnknownKey, EmptyKey, NoKey}
LoginRequest(method, in_form, pending, credentials) ==
    [method |-> method, in_form |-> in_form, pending |-> pending,
     username |-> credentials.username, password |-> credentials.password]
LoginInputs ==
    {LoginRequest("GET", FALSE, p, [username |-> "", password |-> ""]) :
        p \in PendingInputs}
    \cup {LoginRequest("POST", TRUE, p, c) : p \in PendingInputs, c \in CredentialInputs}
    \cup {LoginRequest("POST", FALSE, p, [username |-> "admin", password |-> "pw1"]) :
            p \in DOMAIN _pending_auths \cup {NoKey}}
(* pending_id: the query parameter, overridden by the form field of a POST *)
PendingId(request) ==
    IF request.method = "POST" /\ request.in_form THEN request.pending
    ELSE IF request.in_form THEN NoKey ELSE request.pending
Verified_posted(request) == request.method = "POST"
Verified(request) ==
    request.method = "POST" /\ _verify_user(request.username, request.password) = "True"
(* self._pending_auths.pop(pending_id, None) if pending_id else None *)
PoppedPending(pending_id) ==
    IF TruthyKey(pending_id) THEN Get(_pending_auths, pending_id) ELSE None
PendingAfterPop_kept(pending_id) == _pending_auths
PendingAfterPop(pending_id) ==
    IF TruthyKey(pending_id) THEN Without(_pending_auths, pending_id)
    ELSE _pending_auths
(* urlencode quotes each value with quote_plus (a space becomes "+"; the   *)
(* characters of a token_urlsafe string stay); parse_qs undoes it.         *)
QuotePlus(str) == IF str = "a b" THEN "a+b" ELSE str
Unquote(str) == IF str = "a+b" THEN "a b" ELSE str
(* f"{pending.redirect_uri}{separator}{urlencode(redirect_params)}": the   *)
(* uri, the separator and the name=value pairs in the order of the dict    *)
RedirectTo_question(pending, code) ==
    [redirect_uri |-> pending.redirect_uri,
     separator |-> "?",
     query |-> IF Truthy(pending.state)
               THEN <<<<"code", code>>, <<"state", QuotePlus(pending.state)>>>>
               ELSE <<<<"code", code>>>>]
RedirectTo(pending, code) ==
    [redirect_uri |-> pending.redirect_uri,
     separator |-> IF HasQuery(pending.redirect_uri) THEN "&" ELSE "?",
     query |-> IF Truthy(pending.state)
               THEN <<<<"code", code>>, <<"state", QuotePlus(pending.state)>>>>
               ELSE <<<<"code", code>>>>]
StoredAuthCodeOf_long(code, pending, username, t) ==
    [code |-> code, client_id |-> pending.client_id,
     redirect_uri |-> pending.redirect_uri, scopes |-> pending.scopes,
     code_challenge |-> pending.code_challenge,
     expires_at |-> t + ACCESS_TOKEN_LIFETIME, user |-> username]
StoredAuthCodeOf(code, pending, username, t) ==
    [code |-> code, client_id |-> pending.client_id,
     redirect_uri |-> pending.redirect_uri, scopes |-> pending.scopes,
     code_challenge |-> pending.code_challenge,
     expires_at |-> t + AUTH_CODE_LIFETIME, user |-> username]
(* The response *)
LoginResult(request) ==
    LET pending_id == PendingId(request)
        pending == PoppedPending(pending_id)
        code == _generate_token("code_", 1)
    IN  IF Verified(request)
        THEN IF pending = None
             THEN [status |-> 400, body |-> "Session expired. Please try again."]
             ELSE [status |-> 302, code |-> code, location |-> RedirectTo(pending, code)]
        ELSE [status |-> 200, pending_field |-> TruthyKey(pending_id),
              error |-> IF request.method = "POST" THEN "Invalid username or password"
                        ELSE "None"]
AuthCodesAfterLogin(request) ==
    LET pending == PoppedPending(PendingId(request))
        code == _generate_token("code_", 1)
    IN  IF Verified(request) /\ pending # None
        THEN Put(_auth_codes, code,
                 StoredAuthCodeOf(code, pending, request.username, now))
        ELSE _auth_codes
PendingAuthsAfterLogin_eager(request) == PendingAfterPop(PendingId(request))
PendingAuthsAfterLogin(request) ==
    IF Verified(request) THEN PendingAfterPop(PendingId(request)) ELSE _pending_auths
_handle_login_call(request) ==
    LET pending_id == PendingId(request)
        pending == PoppedPending(pending_id)
        code == _generate_token("code_", 1)
    IN  IF Verified(request) /\ pending # None
        THEN /\ draws + 1 <= MaxDraws
             /\ draws' = draws + 1
             /\ htpasswd' = _load_htpasswd(htpasswd)
             /\ _htpasswd' = _load_htpasswd(htpasswd)
             /\ _pending_auths' = PendingAuthsAfterLogin(request)
             /\ _auth_codes' = AuthCodesAfterLogin(request)
             /\ consumed' = Bump(consumed, pending_id)
             /\ login_user' = Put(login_user, code, request.username)
             /\ UNCHANGED <<_tokens, _refresh_tokens, _clients, now, ticks, issued, swept,
                            revoked, registered>>
        ELSE /\ htpasswd' = IF request.method = "POST" THEN _load_htpasswd(htpasswd)
                            ELSE htpasswd
             /\ _htpasswd' = IF request.method = "POST" THEN _load_htpasswd(htpasswd)
                             ELSE _htpasswd
             /\ _pending_auths' = PendingAuthsAfterLogin(request)
             /\ _auth_codes' = AuthCodesAfterLogin(request)
             /\ UNCHANGED <<_tokens, _refresh_tokens, _clients,
                            now, draws, ticks, history>>
_handle_login ==
    \E request \in LoginInputs : _handle_login_call(request) /\ UNCHANGED outside

-----------------------------------------------------------------------------
(* load_authorization_code, auth.py:332-346 *)
load_authorization_code_call_consuming(code) ==
    /\ _tokens' = Unexpired(_tokens, now)
    /\ _auth_codes' = Without(Unexpired(_auth_codes, now), code)
    /\ _refresh_tokens' = Unexpired(_refresh_tokens, now)
    /\ _pending_auths' = Unexpired(_pending_auths, now)
    /\ swept' = swept \cup Expired(_tokens, now) \cup Expired(_auth_codes, now)
                      \cup Expired(_refresh_tokens, now) \cup Expired(_pending_auths, now)
    /\ UNCHANGED <<_clients, htpasswd, _htpasswd, now, draws, ticks, consumed, login_user,
                   issued, revoked, registered>>
load_authorization_code_call(code) ==
    /\ _cleanup_expired
    /\ UNCHANGED <<htpasswd, _htpasswd, now, draws, ticks, consumed, login_user, issued, revoked, registered>>
load_authorization_code ==
    \E code \in CodeInputs : load_authorization_code_call(code) /\ UNCHANGED outside

(* load_access_token, auth.py:394-407 *)
load_access_token_call(token) ==
    /\ _cleanup_expired
    /\ UNCHANGED <<htpasswd, _htpasswd, now, draws, ticks, consumed, login_user, issued, revoked, registered>>
load_access_token ==
    \E token \in TokenInputs : load_access_token_call(token) /\ UNCHANGED outside

(* load_refresh_token, auth.py:409-421 *)
load_refresh_token_call(token) ==
    /\ _cleanup_expired
    /\ UNCHANGED <<htpasswd, _htpasswd, now, draws, ticks, consumed, login_user, issued, revoked, registered>>
load_refresh_token ==
    \E token \in TokenInputs : load_refresh_token_call(token) /\ UNCHANGED outside

-----------------------------------------------------------------------------
(* The object a caller passes to an exchange: the one a load_* call built  *)
(* from the stored record, or a stale one whose record is gone.            *)
AuthorizationCodeArg(code) ==
    IF code \in DOMAIN _auth_codes THEN AuthorizationCodeOf(_auth_codes[code])
    ELSE [code |-> code, client_id |-> <<"c1", 0>>, redirect_uri |-> "https://app/cb",
          scopes |-> <<>>, code_challenge |-> "None", expires_at |-> 0]
RefreshTokenArg(token) ==
    IF token \in DOMAIN _refresh_tokens THEN RefreshTokenOf(_refresh_tokens[token])
    ELSE [token |-> token, client_id |-> <<"c1", 0>>, scopes |-> <<>>, expires_at |-> 0]

StoredToken_unnamed(token, user, scopes, expires_at, client_id) ==
    [token |-> EmptyKey, user |-> user, scopes |-> scopes, expires_at |-> expires_at,
     client_id |-> client_id]
StoredToken(token, user, scopes, expires_at, client_id) ==
    [token |-> token, user |-> user, scopes |-> scopes,
     expires_at |-> expires_at, client_id |-> client_id]
ValueError(message) == [error |-> "ValueError", message |-> message]
IsError(result) == "error" \in DOMAIN result

(* dict.pop(key, None): the value returned, and the dict that is left *)
PopValue_live(store, key) ==
    IF key \in DOMAIN store /\ store[key].expires_at > now THEN store[key] ELSE None
PopValue(store, key) == Get(store, key)
Popped_kept(store, key) == store
Popped(store, key) == Without(store, key)

(* exchange_authorization_code, auth.py:348-392 *)
ExchangeCodeResult(authorization_code) ==
    LET stored == PopValue(_auth_codes, authorization_code.code)
        user == stored.user
    IN  IF stored = None THEN ValueError("Invalid authorization code")
        ELSE [access_token |->
                  [token |-> _generate_token("at_", 1),
                   client_id |-> authorization_code.client_id,
                   scopes |-> authorization_code.scopes,
                   expires_at |-> now + ACCESS_TOKEN_LIFETIME,
                   claims |-> [user |-> user, sub |-> user]],
              refresh_token |->
                  [token |-> _generate_token("rt_", 2),
                   client_id |-> authorization_code.client_id,
                   scopes |-> authorization_code.scopes,
                   expires_at |-> now + REFRESH_TOKEN_LIFETIME]]
exchange_authorization_code_call(authorization_code) ==
    LET stored == PopValue(_auth_codes, authorization_code.code)
        access_token_str == _generate_token("at_", 1)
        refresh_token_str == _generate_token("rt_", 2)
    IN  IF stored = None
        THEN /\ _auth_codes' = Popped(_auth_codes, authorization_code.code)
             /\ UNCHANGED <<_tokens, _refresh_tokens, _clients, _pending_auths,
                            htpasswd, _htpasswd, now, draws, ticks, history>>
        ELSE /\ draws + 2 <= MaxDraws
             /\ draws' = draws + 2
             /\ _auth_codes' = Popped(_auth_codes, authorization_code.code)
             /\ _tokens' = Put(_tokens, access_token_str,
                    StoredToken(access_token_str, stored.user, authorization_code.scopes,
                                now + ACCESS_TOKEN_LIFETIME, authorization_code.client_id))
             /\ _refresh_tokens' = Put(_refresh_tokens, refresh_token_str,
                    StoredToken(refresh_token_str, stored.user, authorization_code.scopes,
                                now + REFRESH_TOKEN_LIFETIME, authorization_code.client_id))
             /\ consumed' = Bump(consumed, authorization_code.code)
             /\ issued' = Put(issued, access_token_str,
                              [code |-> authorization_code.code,
                               expires_at |-> now + ACCESS_TOKEN_LIFETIME])
             /\ UNCHANGED <<_clients, _pending_auths, htpasswd, _htpasswd, now, ticks,
                            login_user, swept, revoked, registered>>
exchange_authorization_code ==
    \E code \in CodeInputs :
        exchange_authorization_code_call(AuthorizationCodeArg(code)) /\ UNCHANGED outside

(* exchange_refresh_token, auth.py:423-471 *)
(* token_scopes = scopes if scopes else refresh_token.scopes *)
TokenScopes_requested(refresh_token, scopes) == scopes
TokenScopes(refresh_token, scopes) == IF scopes # <<>> THEN scopes ELSE refresh_token.scopes
ExchangeRefreshResult(refresh_token, scopes) ==
    LET stored == PopValue(_refresh_tokens, refresh_token.token)
        user == stored.user
    IN  IF stored = None THEN ValueError("Invalid refresh token")
        ELSE [access_token |->
                  [token |-> _generate_token("at_", 1),
                   client_id |-> refresh_token.client_id,
                   scopes |-> TokenScopes(refresh_token, scopes),
                   expires_at |-> now + ACCESS_TOKEN_LIFETIME,
                   claims |-> [user |-> user, sub |-> user]],
              refresh_token |->
                  [token |-> _generate_token("rt_", 2),
                   client_id |-> refresh_token.client_id,
                   scopes |-> TokenScopes(refresh_token, scopes),
                   expires_at |-> now + REFRESH_TOKEN_LIFETIME]]
exchange_refresh_token_call_rotating(refresh_token, scopes) ==
    LET stored == PopValue(_refresh_tokens, refresh_token.token)
        access_token_str == _generate_token("at_", 1)
        new_refresh_token_str == _generate_token("rt_", 2)
        token_scopes == TokenScopes(refresh_token, scopes)
    IN  IF stored = None
        THEN /\ _refresh_tokens' = Popped(_refresh_tokens, refresh_token.token)
             /\ UNCHANGED <<_tokens, _auth_codes, _clients, _pending_auths,
                            htpasswd, _htpasswd, now, draws, ticks, history>>
        ELSE /\ draws + 2 <= MaxDraws
             /\ draws' = draws + 2
             /\ _tokens' = Put(Popped(_tokens, <<"at_", refresh_token.token[2] - 1>>),
                    access_token_str,
                    StoredToken(access_token_str, stored.user, token_scopes,
                                now + ACCESS_TOKEN_LIFETIME, refresh_token.client_id))
             /\ _refresh_tokens' =
                    Put(Popped(_refresh_tokens, refresh_token.token), new_refresh_token_str,
                        StoredToken(new_refresh_token_str, stored.user, token_scopes,
                                    now + REFRESH_TOKEN_LIFETIME, refresh_token.client_id))
             /\ consumed' = Bump(consumed, refresh_token.token)
             /\ UNCHANGED <<_auth_codes, _clients, _pending_auths, htpasswd, _htpasswd, now,
                            ticks, login_user, issued, swept, revoked, registered>>
exchange_refresh_token_call(refresh_token, scopes) ==
    LET stored == PopValue(_refresh_tokens, refresh_token.token)
        access_token_str == _generate_token("at_", 1)
        new_refresh_token_str == _generate_token("rt_", 2)
        token_scopes == TokenScopes(refresh_token, scopes)
    IN  IF stored = None
        THEN /\ _refresh_tokens' = Popped(_refresh_tokens, refresh_token.token)
             /\ UNCHANGED <<_tokens, _auth_codes, _clients, _pending_auths,
                            htpasswd, _htpasswd, now, draws, ticks, history>>
        ELSE /\ draws + 2 <= MaxDraws
             /\ draws' = draws + 2
             /\ _tokens' = Put(_tokens, access_token_str,
                    StoredToken(access_token_str, stored.user, token_scopes,
                                now + ACCESS_TOKEN_LIFETIME, refresh_token.client_id))
             /\ _refresh_tokens' =
                    Put(Popped(_refresh_tokens, refresh_token.token), new_refresh_token_str,
                        StoredToken(new_refresh_token_str, stored.user, token_scopes,
                                    now + REFRESH_TOKEN_LIFETIME, refresh_token.client_id))
             /\ consumed' = Bump(consumed, refresh_token.token)
             /\ UNCHANGED <<_auth_codes, _clients, _pending_auths, htpasswd, _htpasswd, now,
                            ticks, login_user, issued, swept, revoked, registered>>
exchange_refresh_token ==
    \E token \in TokenInputs, scopes \in ScopeInputs :
        exchange_refresh_token_call(RefreshTokenArg(token), scopes) /\ UNCHANGED outside

(* revoke_token, auth.py:473-476 *)
HintInputs == {"None", "access_token", "refresh_token"}
(* tokens the server handed out, stored or no longer stored *)
RevokeInputs == TokenInputs \ {UnknownKey}
revoke_token_call_hinted(token, token_type_hint) ==
    /\ _tokens' = IF token_type_hint = "refresh_token" THEN _tokens
                  ELSE Popped(_tokens, token)
    /\ _refresh_tokens' = IF token_type_hint = "access_token" THEN _refresh_tokens
                          ELSE Popped(_refresh_tokens, token)
    /\ revoked' = revoked \cup {token}
    /\ UNCHANGED <<_auth_codes, _clients, _pending_auths, htpasswd, _htpasswd, now, draws,
                   ticks, consumed, login_user, issued, swept, registered>>
revoke_token_call_family(token, token_type_hint) ==
    /\ _tokens' = Popped(_tokens, token)
    /\ _refresh_tokens' = Popped(Popped(_refresh_tokens, token), <<"rt_", token[2] + 1>>)
    /\ revoked' = revoked \cup {token}
    /\ UNCHANGED <<_auth_codes, _clients, _pending_auths, htpasswd, _htpasswd, now, draws,
                   ticks, consumed, login_user, issued, swept, registered>>
revoke_token_call(token, token_type_hint) ==
    /\ _tokens' = Popped(_tokens, token)
    /\ _refresh_tokens' = Popped(_refresh_tokens, token)
    /\ revoked' = revoked \cup {token}
    /\ UNCHANGED <<_auth_codes, _clients, _pending_auths, htpasswd, _htpasswd, now, draws,
                   ticks, consumed, login_user, issued, swept, registered>>
revoke_token ==
    \E token \in RevokeInputs, token_type_hint \in HintInputs :
        revoke_token_call(token, token_type_hint) /\ UNCHANGED outside

-----------------------------------------------------------------------------
(* The token flow: every call of the provider but the client registry's. *)
Next ==
    \/ Tick
    \/ authorize
    \/ _handle_login
    \/ load_authorization_code
    \/ exchange_authorization_code
    \/ load_access_token
    \/ load_refresh_token
    \/ exchange_refresh_token
    \/ revoke_token

Spec == Init /\ [][Next]_vars

-----------------------------------------------------------------------------
(* Concurrent exchanges.  Each request runs as a task of one event loop;   *)
(* exchange_authorization_code has no await, so once the loop runs a task  *)
(* the call completes before any other task runs.  create_task hands the   *)
(* call to the loop with the object it will pass; run_task is the loop     *)
(* running it.  live records whether the code was stored at creation.      *)
(* The two tasks are given the same code: the race is for one code.        *)
create_task ==
    \E t \in Tasks, code \in CodeInputs :
        /\ tasks[t].pc = "idle"
        /\ \A u \in Tasks \ {t} : tasks[u].pc # "idle" => tasks[u].arg.code = code
        /\ tasks' = [tasks EXCEPT ![t] =
                        [pc |-> "ready", arg |-> AuthorizationCodeArg(code),
                         live |-> code \in DOMAIN _auth_codes]]
        /\ UNCHANGED <<stores, htpasswd, _htpasswd, now, draws, ticks, history, disk, apps>>
run_task ==
    \E t \in Tasks :
        /\ tasks[t].pc = "ready"
        /\ exchange_authorization_code_call(tasks[t].arg)
        /\ tasks' = [tasks EXCEPT ![t] =
                        [pc |-> "done", arg |-> tasks[t].arg, live |-> tasks[t].live,
                         result |-> ExchangeCodeResult(tasks[t].arg)]]
        /\ UNCHANGED <<disk, apps>>
(* The flows that mint the codes raced for: one client, one user *)
authorize_app ==
    \E params \in {p \in AuthorizeInputs : TruthyKey(p.client_id)} :
        authorize_call(params) /\ UNCHANGED outside
login_admin ==
    \E p \in PendingInputs :
        /\ _handle_login_call(
               LoginRequest("POST", TRUE, p, [username |-> "admin", password |-> "pw1"]))
        /\ UNCHANGED outside

NextRace ==
    \/ Tick
    \/ authorize_app
    \/ login_admin
    \/ load_authorization_code
    \/ create_task
    \/ run_task

SpecRace == Init /\ [][NextRace]_vars

(* Concurrent logins.  _handle_login awaits once, request.form() at        *)
(* auth.py:144: post_login is the handler running up to that await (it has *)
(* read the query string and the method, and changed nothing), and         *)
(* finish_login is the loop resuming it with the form: verification, the   *)
(* pop, the code and the response follow without another await.  The two   *)
(* POSTs carry valid credentials and the same pending id.                  *)
post_login ==
    \E t \in Tasks, p \in PendingInputs,
       c \in {x \in CredentialInputs : _verify_user(x.username, x.password) = "True"} :
        /\ tasks[t].pc = "idle"
        /\ \A u \in Tasks \ {t} : tasks[u].pc # "idle" => tasks[u].request.pending = p
        /\ tasks' = [tasks EXCEPT ![t] =
                        [pc |-> "form", request |-> LoginRequest("POST", TRUE, p, c),
                         live |-> p \in DOMAIN _pending_auths]]
        /\ UNCHANGED <<stores, htpasswd, _htpasswd, now, draws, ticks, history, disk, apps>>
finish_login ==
    \E t \in Tasks :
        /\ tasks[t].pc = "form"
        /\ _handle_login_call(tasks[t].request)
        /\ tasks' = [tasks EXCEPT ![t] =
                        [pc |-> "done", request |-> tasks[t].request,
                         live |-> tasks[t].live,
                         result |-> LoginResult(tasks[t].request)]]
        /\ UNCHANGED <<disk, apps>>

NextLoginRace ==
    \/ Tick
    \/ authorize_app
    \/ post_login
    \/ finish_login

SpecLoginRace == Init /\ [][NextLoginRace]_vars

-----------------------------------------------------------------------------
(* The client registry: lookups with auto-registration, registrations,     *)
(* and the authorization requests of the clients.                          *)
NextClients ==
    \/ Tick
    \/ get_client
    \/ register_client
    \/ authorize_app

SpecClients == Init /\ [][NextClients]_vars

(* The provider with all its operations: the operations of Next, with one  *)
(* authorize request and one login, and the two client operations.         *)
NextServer ==
    \/ Tick
    \/ get_client
    \/ register_client
    \/ authorize_app
    \/ login_admin
    \/ load_authorization_code
    \/ exchange_authorization_code
    \/ load_access_token
    \/ load_refresh_token
    \/ exchange_refresh_token
    \/ revoke_token

SpecServer == Init /\ [][NextServer]_vars

-----------------------------------------------------------------------------
(* The credential file is edited while the server runs: an administrator   *)
(* changes admin's password and removes bob, restores the first contents,  *)
(* or deletes the file.                                                    *)
edit_htpasswd ==
    /\ htpasswd' \in { [exists |-> FALSE], InitialHtpasswd,
                       [exists |-> TRUE, users |-> [u \in {"admin"} |-> Hash("pw2")]] }
    /\ UNCHANGED <<stores, _htpasswd, now, draws, ticks, history, outside>>
(* _verify_user called on its own, tests/test_auth.py:102-123: the file is *)
(* loaded into _htpasswd, and created first when it is missing.            *)
verify_user ==
    \E c \in CredentialInputs :
        /\ htpasswd' = _load_htpasswd(htpasswd)
        /\ _htpasswd' = _load_htpasswd(htpasswd)
        /\ UNCHANGED <<stores, now, draws, ticks, history, outside>>

NextCredentials ==
    \/ edit_htpasswd
    \/ verify_user
    \/ authorize_app
    \/ _handle_login

SpecCredentials == Init /\ [][NextCredentials]_vars

-----------------------------------------------------------------------------
(* The login flow alone, with every shape of authorization request: a      *)
(* redirect_uri with and without a query, a state that is absent, empty,   *)
(* plain, or holds a character urlencode quotes.                           *)
LoginAuthorizeInputs ==
    AuthorizeInputs \cup
    { [client_id |-> <<"c1", 0>>,
       redirect_uri |-> "https://app/cb", scopes |-> <<"read">>,
       state |-> "", code_challenge |-> "ch"],
      [client_id |-> <<"c1", 0>>,
       redirect_uri |-> "https://app/cb?x=1", scopes |-> <<"read">>,
       state |-> "a b", code_challenge |-> "None"] }
authorize_request ==
    \E params \in LoginAuthorizeInputs :
        /\ Cardinality(DOMAIN _pending_auths) < MaxPending
        /\ authorize_call(params)
        /\ UNCHANGED outside

NextLogin ==
    \/ Tick
    \/ authorize_request
    \/ _handle_login
    \/ load_authorization_code

SpecLogin == Init /\ [][NextLogin]_vars

-----------------------------------------------------------------------------
(* The JSON-backed store, token_db.py.  Its five dicts are the variables   *)
(* _tokens .. _pending_auths; every mutator ends with its own _save().     *)
EmptyData ==
    [tokens |-> Empty, auth_codes |-> Empty, refresh_tokens |-> Empty,
     pending_auths |-> Empty, clients |-> Empty]
(* The five dicts of the TokenDB *)
Data ==
    [tokens |-> _tokens, auth_codes |-> _auth_codes, refresh_tokens |-> _refresh_tokens,
     pending_auths |-> _pending_auths, clients |-> _clients]

(* The dataclasses of token_db.py; StoredToken is the one of auth.py. *)
StoredAuthCode(code, client_id, redirect_uri, scopes, code_challenge, expires_at, user, redirect_uri_provided_explicitly) ==
    [code |-> code, client_id |-> client_id, redirect_uri |-> redirect_uri,
     scopes |-> scopes, code_challenge |-> code_challenge, expires_at |-> expires_at,
     user |-> user,
     redirect_uri_provided_explicitly |-> redirect_uri_provided_explicitly]
PendingAuth(client_id, redirect_uri, scopes, state, code_challenge, expires_at, redirect_uri_provided_explicitly) ==
    [client_id |-> client_id, redirect_uri |-> redirect_uri, scopes |-> scopes,
     state |-> state, code_challenge |-> code_challenge, expires_at |-> expires_at,
     redirect_uri_provided_explicitly |-> redirect_uri_provided_explicitly]

(* JSON values: what json.dumps writes for the value of a field and what   *)
(* json.loads reads back.  None is written as null, True and False as true *)
(* and false, a str as a string, a float as a number, a list as an array.  *)
ToJson(field, value) ==
    CASE field \in {"scopes", "redirect_uris"} ->
             [json |-> "array",
              value |-> [i \in DOMAIN value |-> [json |-> "string", value |-> value[i]]]]
      [] field = "expires_at" -> [json |-> "number", value |-> value]
      [] field = "redirect_uri_provided_explicitly" ->
             IF value THEN [json |-> "true"] ELSE [json |-> "false"]
      [] field \in {"token", "code", "client_id", "client_secret"} ->
             IF value = NoKey THEN [json |-> "null"]
             ELSE [json |-> "string", value |-> value]
      [] OTHER ->
             IF value = "None" THEN [json |-> "null"]
             ELSE [json |-> "string", value |-> value]
FromJson_nullempty(field, j) ==
    CASE j.json = "null" ->
             IF field \in {"token", "code", "client_id", "client_secret"}
             THEN EmptyKey ELSE ""
      [] j.json = "true" -> TRUE
      [] j.json = "false" -> FALSE
      [] j.json = "array" -> [i \in DOMAIN j.value |-> j.value[i].value]
      [] OTHER -> j.value
FromJson(field, j) ==
    CASE j.json = "null" ->
             IF field \in {"token", "code", "client_id", "client_secret"}
             THEN NoKey ELSE "None"
      [] j.json = "true" -> TRUE
      [] j.json = "false" -> FALSE
      [] j.json = "array" -> [i \in DOMAIN j.value |-> j.value[i].value]
      [] OTHER -> j.value
(* json.dumps(data) of _save: every record through asdict (a client        *)
(* through model_dump), every dict keyed as it is in memory                *)
json_dumps(data) ==
    LET asdict(v) == [f \in DOMAIN v |-> ToJson(f, v[f])]
    IN  [name \in DOMAIN data |-> [k \in DOMAIN data[name] |-> asdict(data[name][k])]]

(* The file is missing, or holds text: a JSON object with its members, a   *)
(* JSON document that is not an object, or text that is not JSON.          *)
(* Path.write_text opens the file for writing, which truncates it, then    *)
(* writes: _save completes it, a process that dies in between leaves a     *)
(* prefix of the new text, which is never JSON (its braces are not closed).*)
_save == db_file' = [exists |-> TRUE, json |-> "object", members |-> json_dumps(Data')]
write_text_interrupted == db_file' = [exists |-> TRUE, json |-> "invalid"]

(* _load: what a TokenDB opened on the file holds, or the exception that   *)
(* leaves __init__.  The dataclass constructor raises a TypeError unless   *)
(* the members of a record are all its required fields and no unknown one; *)
(* the sections are assigned in the order of the code, so a TypeError in   *)
(* one section keeps the sections assigned before it.                      *)
_load(f) ==
    LET StoredTokenFields == {"token", "user", "scopes", "expires_at", "client_id"}
        StoredAuthCodeFields == {"code", "client_id", "redirect_uri", "scopes",
                                 "code_challenge", "expires_at", "user"}
        PendingAuthFields == {"client_id", "redirect_uri", "scopes", "state",
                              "code_challenge", "expires_at"}
        Defaults == [x \in {"redirect_uri_provided_explicitly"} |-> TRUE]
        NoDefaults == [x \in {} |-> TRUE]
        Section(name) == IF name \in DOMAIN f.members THEN f.members[name] ELSE Empty
        Constructs(name, required, defaults) ==
            \A k \in DOMAIN Section(name) :
                /\ required \subseteq DOMAIN Section(name)[k]
                /\ DOMAIN Section(name)[k] \subseteq required \cup DOMAIN defaults
        Loaded(name, required, defaults) ==
            [k \in DOMAIN Section(name) |->
                [x \in required \cup DOMAIN defaults |->
                    IF x \in DOMAIN Section(name)[k]
                    THEN FromJson(x, Section(name)[k][x]) ELSE defaults[x]]]
        ok1 == Constructs("tokens", StoredTokenFields, NoDefaults)
        ok2 == ok1 /\ Constructs("auth_codes", StoredAuthCodeFields, Defaults)
        ok3 == ok2 /\ Constructs("refresh_tokens", StoredTokenFields, NoDefaults)
        ok4 == ok3 /\ Constructs("pending_auths", PendingAuthFields, Defaults)
    IN  IF ~f.exists THEN EmptyData
        ELSE IF f.json = "invalid" THEN EmptyData
        ELSE IF f.json # "object" THEN [error |-> "AttributeError"]
        ELSE [tokens |-> IF ok1 THEN Loaded("tokens", StoredTokenFields, NoDefaults)
                         ELSE Empty,
              auth_codes |-> IF ok2 THEN Loaded("auth_codes", StoredAuthCodeFields, Defaults)
                             ELSE Empty,
              refresh_tokens |-> IF ok3
                                 THEN Loaded("refresh_tokens", StoredTokenFields, NoDefaults)
                                 ELSE Empty,
              pending_auths |-> IF ok4
                                THEN Loaded("pending_auths", PendingAuthFields, Defaults)
                                ELSE Empty,
              clients |-> IF ok4
                          THEN [k \in DOMAIN Section("clients") |->
                                   [x \in DOMAIN Section("clients")[k] |->
                                       FromJson(x, Section("clients")[k][x])]]
                          ELSE Empty]

(* TokenDB.set_auth_code *)
set_auth_code_call(code, data) ==
    /\ _auth_codes' = Put(_auth_codes, code, data)
    /\ UNCHANGED <<_tokens, _refresh_tokens, _clients, _pending_auths>>
    /\ _save
(* TokenDB.pop_auth_code *)
pop_auth_code_call(code) ==
    /\ _auth_codes' = Popped(_auth_codes, code)
    /\ UNCHANGED <<_tokens, _refresh_tokens, _clients, _pending_auths>>
    /\ _save
(* TokenDB.pop_refresh_token *)
pop_refresh_token_call(token) ==
    /\ _refresh_tokens' = Popped(_refresh_tokens, token)
    /\ UNCHANGED <<_tokens, _auth_codes, _clients, _pending_auths>>
    /\ _save
(* TokenDB.pop_pending_auth *)
pop_pending_auth_call(pending_id) ==
    /\ _pending_auths' = Popped(_pending_auths, pending_id)
    /\ UNCHANGED <<_tokens, _auth_codes, _refresh_tokens, _clients>>
    /\ _save
(* TokenDB.set_token *)
set_token_call(token, data) ==
    /\ _tokens' = Put(_tokens, token, data)
    /\ UNCHANGED <<_auth_codes, _refresh_tokens, _clients, _pending_auths>>
    /\ _save
(* TokenDB.set_refresh_token *)
set_refresh_token_call(token, data) ==
    /\ _refresh_tokens' = Put(_refresh_tokens, token, data)
    /\ UNCHANGED <<_tokens, _auth_codes, _clients, _pending_auths>>
    /\ _save

(* A login on the persisted provider stores its code with set_auth_code. *)
set_auth_code ==
    \E params \in AuthorizeInputs, username \in {"admin", "bob"} :
        LET code == _generate_token("code_", 1)
            pending == PendingAuthOf(params, now)
        IN  /\ db_call.pc = "idle"
            /\ draws + 1 <= MaxDraws
            /\ draws' = draws + 1
            /\ set_auth_code_call(code,
                   StoredAuthCode(code, pending.client_id, pending.redirect_uri,
                                  pending.scopes, pending.code_challenge,
                                  now + AUTH_CODE_LIFETIME, username, TRUE))
            /\ UNCHANGED <<htpasswd, _htpasswd, now, ticks, history, tasks, apps, db_call, minted>>

(* exchange_authorization_code of the persisted provider: the calls of the *)
(* in-memory one (auth.py:352-375) made on the TokenDB, in the same order: *)
(* pop_auth_code, the two draws, set_token, set_refresh_token.  There is   *)
(* no await between them: another task runs only when db_call is idle.     *)
exchange_pop_auth_code ==
    \E code \in CodeInputs :
        LET stored == PopValue(_auth_codes, code)
            arg == AuthorizationCodeArg(code)
        IN  /\ db_call.pc = "idle"
            /\ pop_auth_code_call(code)
            /\ IF stored = None
               THEN UNCHANGED <<draws, db_call, minted>>
               ELSE /\ draws + 2 <= MaxDraws
                    /\ draws' = draws + 2
                    /\ db_call' = [pc |-> "popped", arg |-> arg, user |-> stored.user,
                                   access_token |-> _generate_token("at_", 1),
                                   refresh_token |-> _generate_token("rt_", 2)]
                    /\ minted' = Put(minted, code,
                                     [access_token |-> _generate_token("at_", 1),
                                      refresh_token |-> _generate_token("rt_", 2)])
            /\ UNCHANGED <<htpasswd, _htpasswd, now, ticks, history, tasks, apps>>
exchange_set_token ==
    /\ db_call.pc = "popped"
    /\ set_token_call(db_call.access_token,
           StoredToken(db_call.access_token, db_call.user, db_call.arg.scopes,
                       now + ACCESS_TOKEN_LIFETIME, db_call.arg.client_id))
    /\ db_call' = [db_call EXCEPT !.pc = "access"]
    /\ UNCHANGED <<htpasswd, _htpasswd, now, draws, ticks, history, tasks, apps, minted>>
exchange_set_refresh_token ==
    /\ db_call.pc = "access"
    /\ set_refresh_token_call(db_call.refresh_token,
           StoredToken(db_call.refresh_token, db_call.user, db_call.arg.scopes,
                       now + REFRESH_TOKEN_LIFETIME, db_call.arg.client_id))
    /\ db_call' = IdleCall
    /\ issued' = Put(issued, db_call.access_token,
                     [code |-> db_call.arg.code,
                      expires_at |-> now + ACCESS_TOKEN_LIFETIME])
    /\ UNCHANGED <<htpasswd, _htpasswd, now, draws, ticks, consumed, login_user, swept, revoked,
                   registered, tasks, apps, minted>>

(* The process dies at any point and the server is started again:          *)
(* TokenDB.__init__ loads the five dicts from the file; a running call is  *)
(* lost with the process.                                                  *)
restart ==
    /\ _tokens' = _load(db_file).tokens
    /\ _auth_codes' = _load(db_file).auth_codes
    /\ _refresh_tokens' = _load(db_file).refresh_tokens
    /\ _pending_auths' = _load(db_file).pending_auths
    /\ _clients' = _load(db_file).clients
    /\ db_call' = IdleCall
    /\ UNCHANGED <<htpasswd, _htpasswd, now, draws, ticks, history, tasks, apps, db_file, minted>>

-----------------------------------------------------------------------------
(* The TokenDB on its own: a process that holds one TokenDB makes the      *)
(* calls of token_db.py:106-182 on it, stops, and opens the file again.    *)
Running == db_call.pc = "idle"
db_frame == <<htpasswd, _htpasswd, draws, ticks, history, tasks, apps, minted>>

(* Records the callers store, tests/test_token_db.py:32-162: live ones and *)
(* ones already past their expiry, with and without the optional fields.   *)
RecordInputs ==
    [tokens |->
        { StoredToken(<<"tok", 0>>, "user", <<"read">>, now + 600, <<"c1", 0>>),
          StoredToken(<<"tok", 0>>, "u", <<>>, now - 100, <<"c", 0>>) },
     refresh_tokens |->
        { StoredToken(<<"rt", 0>>, "u", <<>>, now + 600, <<"c", 0>>),
          StoredToken(<<"rt", 0>>, "u", <<>>, now - 100, <<"c", 0>>),
          StoredToken(<<"rt2", 0>>, "user", <<"read">>, 600, <<"c1", 0>>) },
     auth_codes |->
        { StoredAuthCode(<<"code1", 0>>, <<"c1", 0>>, "http://localhost/cb", <<"read">>,
                         "challenge", now + 600, "testuser", TRUE),
          StoredAuthCode(<<"code1", 0>>, <<"c1", 0>>, "http://localhost", <<>>,
                         "None", now - 100, "user", FALSE),
          StoredAuthCode(<<"code2", 0>>, <<"c1", 0>>, "http://localhost/cb", <<"read">>,
                         "challenge", 600, "testuser", TRUE) },
     pending_auths |->
        { [id |-> <<"pending1", 0>>,
           data |-> PendingAuth(<<"c1", 0>>, "http://localhost/cb", <<"write">>,
                                "state123", "challenge", now + 600, FALSE)],
          [id |-> <<"pending1", 0>>,
           data |-> PendingAuth(<<"c", 0>>, "http://x", <<>>, "None", "None",
                                now - 100, TRUE)],
          [id |-> <<"pending2", 0>>,
           data |-> PendingAuth(<<"c1", 0>>, "http://localhost/cb", <<"write">>,
                                "state123", "challenge", 600, FALSE)] },
     clients |->
        { PermissiveClient(<<"client1", 0>>, <<"secret123", 0>>,
                           <<"http://localhost/cb">>, "None"),
          PermissiveClient(<<"client1", 0>>, NoKey, PLACEHOLDER_URIS, "app") }]

(* TokenDB.cleanup_expired, token_db.py:106-119 *)
db_cleanup_expired ==
    /\ Running
    /\ _tokens' = Unexpired(_tokens, now)
    /\ _auth_codes' = Unexpired(_auth_codes, now)
    /\ _refresh_tokens' = Unexpired(_refresh_tokens, now)
    /\ _pending_auths' = Unexpired(_pending_auths, now)
    /\ UNCHANGED _clients
    /\ _save
    /\ UNCHANGED <<now, db_call, db_frame>>
db_set_token ==
    \E data \in RecordInputs.tokens :
        /\ Running
        /\ set_token_call(data.token, data)
        /\ UNCHANGED <<now, db_call, db_frame>>
(* TokenDB.delete_token *)
db_delete_token ==
    \E data \in RecordInputs.tokens :
        /\ Running
        /\ _tokens' = Without(_tokens, data.token)
        /\ UNCHANGED <<_auth_codes, _refresh_tokens, _clients, _pending_auths>>
        /\ _save
        /\ UNCHANGED <<now, db_call, db_frame>>
db_set_auth_code ==
    \E data \in RecordInputs.auth_codes :
        /\ Running
        /\ set_auth_code_call(data.code, data)
        /\ UNCHANGED <<now, db_call, db_frame>>
db_pop_auth_code ==
    \E data \in RecordInputs.auth_codes :
        /\ Running
        /\ pop_auth_code_call(data.code)
        /\ UNCHANGED <<now, db_call, db_frame>>
db_set_refresh_token ==
    \E data \in RecordInputs.refresh_tokens :
        /\ Running
        /\ set_refresh_token_call(data.token, data)
        /\ UNCHANGED <<now, db_call, db_frame>>
(* TokenDB.pop_refresh_token and TokenDB.delete_refresh_token *)
db_pop_refresh_token ==
    \E data \in RecordInputs.refresh_tokens :
        /\ Running
        /\ pop_refresh_token_call(data.token)
        /\ UNCHANGED <<now, db_call, db_frame>>
(* TokenDB.set_client *)
db_set_client ==
    \E client \in RecordInputs.clients :
        /\ Running
        /\ _clients' = Put(_clients, client.client_id, client)
        /\ UNCHANGED <<_tokens, _auth_codes, _refresh_tokens, _pending_auths>>
        /\ _save
        /\ UNCHANGED <<now, db_call, db_frame>>
(* TokenDB.set_pending_auth *)
db_set_pending_auth ==
    \E input \in RecordInputs.pending_auths :
        /\ Running
        /\ _pending_auths' = Put(_pending_auths, input.id, input.data)
        /\ UNCHANGED <<_tokens, _auth_codes, _refresh_tokens, _clients>>
        /\ _save
        /\ UNCHANGED <<now, db_call, db_frame>>
(* TokenDB.pop_pending_auth *)
db_pop_pending_auth ==
    \E input \in RecordInputs.pending_auths :
        /\ Running
        /\ pop_pending_auth_call(input.id)
        /\ UNCHANGED <<now, db_call, db_frame>>

(* The dicts of a process that is gone *)
Forgotten ==
    /\ _tokens' = Empty
    /\ _auth_codes' = Empty
    /\ _refresh_tokens' = Empty
    /\ _pending_auths' = Empty
    /\ _clients' = Empty
(* The process exits between two calls: the file stays as the last call    *)
(* left it.                                                                *)
stop ==
    /\ Running
    /\ Forgotten
    /\ db_call' = [pc |-> "down"]
    /\ UNCHANGED <<now, db_file, db_frame>>
(* The process dies inside the write_text of a mutating call (every one of *)
(* them ends in _save, whatever its arguments): the file is left with a    *)
(* prefix of the new text.                                                 *)
die_in_save ==
    /\ Running
    /\ Forgotten
    /\ write_text_interrupted
    /\ db_call' = [pc |-> "down"]
    /\ UNCHANGED <<now, db_frame>>
(* TokenDB.__init__ of the next process: the dicts are what _load read; an *)
(* exception that leaves _load ends that process at once.                  *)
open ==
    /\ db_call.pc = "down"
    /\ ~IsError(_load(db_file))
    /\ _tokens' = _load(db_file).tokens
    /\ _auth_codes' = _load(db_file).auth_codes
    /\ _refresh_tokens' = _load(db_file).refresh_tokens
    /\ _pending_auths' = _load(db_file).pending_auths
    /\ _clients' = _load(db_file).clients
    /\ db_call' = IdleCall
    /\ UNCHANGED <<now, db_file, db_frame>>

(* The persisted provider: logins, the exchange step by step, a process   *)
(* that dies in a save, and the restart.                                   *)
NextDB ==
    \/ set_auth_code
    \/ exchange_pop_auth_code
    \/ exchange_set_token
    \/ exchange_set_refresh_token
    \/ die_in_save
    \/ restart

SpecDB == Init /\ [][NextDB]_vars

(* While no process runs, the file is deleted or its contents are replaced *)
(* by something no _save wrote: text that is not JSON ("not valid json     *)
(* {{{" of tests/test_token_db.py:173), a JSON document that is not an     *)
(* object ("[]"), and an object whose token is sound and whose code lacks  *)
(* a field.                                                                *)
CorruptFiles ==
    { [exists |-> TRUE, json |-> "invalid"],
      [exists |-> TRUE, json |-> "array"],
      [exists |-> TRUE, json |-> "object",
       members |->
          [tokens |-> json_dumps([tokens |-> [k \in {<<"tok", 0>>} |->
                          StoredToken(k, "user", <<"read">>, 3600, <<"c1", 0>>)]]).tokens,
           auth_codes |-> [k \in {<<"code1", 0>>} |->
                              [code |-> [json |-> "string", value |-> k]]]]] }
damage ==
    /\ db_call.pc = "down"
    /\ db_file' \in CorruptFiles \cup {MissingFile}
    /\ UNCHANGED <<stores, now, db_call, db_frame>>

NextStore ==
    \/ Tick
    \/ damage
    \/ db_cleanup_expired
    \/ db_set_token
    \/ db_delete_token
    \/ db_set_auth_code
    \/ db_pop_auth_code
    \/ db_set_refresh_token
    \/ db_pop_refresh_token
    \/ db_set_client
    \/ db_set_pending_auth
    \/ db_pop_pending_auth
    \/ stop
    \/ die_in_save
    \/ open

SpecStore == Init /\ [][NextStore]_vars

(* One process that only stores and pops records. *)
NextPops ==
    \/ db_set_token
    \/ db_set_client
    \/ db_set_auth_code
    \/ db_pop_auth_code
    \/ db_set_refresh_token
    \/ db_pop_refresh_token
    \/ db_set_pending_auth
    \/ db_pop_pending_auth

SpecPops == Init /\ [][NextPops]_vars

-----------------------------------------------------------------------------
(* The player CLI, watch.py.  A run of the CLI is one process: it reads    *)
(* AUTH_USERNAME and AUTH_PASSWORD from its environment at import and      *)
(* calls get_valid_auth once (watch.py:446).  The server is the other end  *)
(* of an HTTP request: a request to its token endpoint succeeds with a new *)
(* token pair or fails, and so does the credential login.                  *)
StoredAuth(access_token, refresh_token, expires_at, server_url) ==
    [access_token |-> access_token, refresh_token |-> refresh_token,
     expires_at |-> expires_at, server_url |-> server_url]
get_server_base_url == "https://ahiru.pl"
RuntimeError(message) == [error |-> "RuntimeError", message |-> message]
(* load_auth: None for a missing file, for contents that are not the JSON  *)
(* of a StoredAuth, and for tokens of another server.                      *)
load_auth ==
    IF ~TOKEN_FILE.exists \/ TOKEN_FILE.json # "object" THEN None
    ELSE IF TOKEN_FILE.members.server_url # get_server_base_url THEN None
    ELSE TOKEN_FILE.members
(* refresh_token(auth): the new StoredAuth (which it saves), or None when  *)
(* anything raised.  The pair it gets is one the server never gave before. *)
refresh_token_call(auth, response) ==
    IF ~response.ok THEN None
    ELSE StoredAuth(<<"at_", auth.refresh_token[2] + response.n>>,
                    <<"rt_", auth.refresh_token[2] + response.n>>,
                    now + response.expires_in, get_server_base_url)
(* do_credential_auth(username, password): the StoredAuth of a new login   *)
(* (which it saves), or the error it raises                                *)
do_credential_auth(username, password, response) ==
    IF ~response.ok THEN RuntimeError("Login failed - invalid credentials")
    ELSE StoredAuth(<<"at_", 0>>, <<"rt_", 0>>, now + response.expires_in,
                    get_server_base_url)
(* What get_valid_auth does in a process with the environment env, when    *)
(* the server answers a refresh with refresh_response and a login with     *)
(* login_response: the value it returns or the error it raises, the number *)
(* of refresh requests it made, whether it called clear_auth, whether it   *)
(* ran do_credential_auth, and the file it leaves.  valid_auth keeps this  *)
(* with the inputs of the call: the environment, the two responses, what   *)
(* load_auth returned and the time.                                        *)
GetValidAuth_eager(env, refresh_response, login_response) ==
    LET auth == load_auth
        fresh == auth # None /\ auth.expires_at > now
        refreshed == IF auth # None /\ ~fresh THEN refresh_token_call(auth, refresh_response)
                     ELSE None
        relogin == ~fresh /\ refreshed = None
        cleared == auth # None /\ relogin
        credentials == env.AUTH_USERNAME # "" /\ env.AUTH_PASSWORD # ""
        login == IF credentials
                 THEN do_credential_auth(env.AUTH_USERNAME, env.AUTH_PASSWORD,
                                         login_response)
                 ELSE RuntimeError("AUTH_USERNAME and AUTH_PASSWORD environment variables required")
        value == IF fresh THEN auth ELSE IF refreshed # None THEN refreshed ELSE login
    IN  [value |-> value,
         refreshes |-> IF auth # None /\ ~fresh THEN 1 ELSE 0,
         cleared |-> cleared,
         login |-> relogin /\ credentials,
         file |-> IF fresh THEN TOKEN_FILE
                  ELSE IF ~IsError(value)
                       THEN [exists |-> TRUE, json |-> "object", members |-> value]
                  ELSE IF cleared THEN MissingFile
                  ELSE TOKEN_FILE]
GetValidAuth(env, refresh_response, login_response) ==
    LET auth == load_auth
        fresh == auth # None /\ auth.expires_at > now + 300
        refreshed == IF auth # None /\ ~fresh THEN refresh_token_call(auth, refresh_response)
                     ELSE None
        relogin == ~fresh /\ refreshed = None
        cleared == auth # None /\ relogin
        credentials == env.AUTH_USERNAME # "" /\ env.AUTH_PASSWORD # ""
        login == IF credentials
                 THEN do_credential_auth(env.AUTH_USERNAME, env.AUTH_PASSWORD,
                                         login_response)
                 ELSE RuntimeError("AUTH_USERNAME and AUTH_PASSWORD environment variables required")
        value == IF fresh THEN auth ELSE IF refreshed # None THEN refreshed ELSE login
    IN  [value |-> value,
         refreshes |-> IF auth # None /\ ~fresh THEN 1 ELSE 0,
         cleared |-> cleared,
         login |-> relogin /\ credentials,
         file |-> IF fresh THEN TOKEN_FILE
                  ELSE IF ~IsError(value)
                       THEN [exists |-> TRUE, json |-> "object", members |-> value]
                  ELSE IF cleared THEN MissingFile
                  ELSE TOKEN_FILE]
(* A run of the CLI.  A response of the token endpoint: ok is              *)
(* raise_for_status passing, n tells one new token pair from another, and  *)
(* expires_in is 3600 when the body has none.                              *)
get_valid_auth ==
    LET EnvInputs == { [AUTH_USERNAME |-> "admin", AUTH_PASSWORD |-> "pw1"],
                       [AUTH_USERNAME |-> "", AUTH_PASSWORD |-> ""],
                       [AUTH_USERNAME |-> "admin", AUTH_PASSWORD |-> ""] }
        TokenResponses == { [ok |-> FALSE],
                            [ok |-> TRUE, n |-> 1, expires_in |-> 3600],
                            [ok |-> TRUE, n |-> 2, expires_in |-> ACCESS_TOKEN_LIFETIME] }
    IN
    \E env \in EnvInputs, refresh_response \in TokenResponses,
       login_response \in TokenResponses :
        LET call == GetValidAuth(env, refresh_response, login_response)
        IN  /\ load_auth # None => load_auth.refresh_token[2] + 2 <= MaxDraws
            /\ TOKEN_FILE' = call.file
            /\ valid_auth' = [call |-> call, env |-> env, stored |-> load_auth, at |-> now,
                              refresh_response |-> refresh_response,
                              login_response |-> login_response]
            /\ UNCHANGED <<stores, htpasswd, _htpasswd, now, draws, ticks, history, tasks,
                           disk, video_files, HISTORY_FILE, HISTORY_LOCK_FILE, callers>>
(* Between two runs the file is as an earlier run left it: deleted, cut    *)
(* short, or holding tokens of the server at another URL.                  *)
write_token_file ==
    /\ TOKEN_FILE' \in
           { MissingFile, [exists |-> TRUE, json |-> "invalid"] } \cup
           { [exists |-> TRUE, json |-> "object",
              members |-> StoredAuth(<<"at_", 1>>, <<"rt_", 1>>, now + left, url)] :
                url \in {get_server_base_url, SERVER_BASE_URL}, left \in {300, 301} }
    /\ UNCHANGED <<stores, htpasswd, _htpasswd, now, draws, ticks, history, tasks, disk,
                   valid_auth, video_files, HISTORY_FILE, HISTORY_LOCK_FILE, callers>>

NextWatch ==
    \/ Tick
    \/ write_token_file
    \/ get_valid_auth

SpecWatch == Init /\ [][NextWatch]_vars

-----------------------------------------------------------------------------
(* The episode history, lib/anime.py.  A video file is a path: the         *)
(* directory it lies in (BASE_PATH is "main", STALLED_DIR is "stalled")    *)
(* and its name.  A line of the history file is the entry json.dumps wrote *)
(* there: its status and its path (ts and the parsed metadata depend on    *)
(* nothing but the time and the path).  Each caller is a process or a      *)
(* thread; flock excludes them from each other.                            *)
watch_frame == <<stores, htpasswd, _htpasswd, now, draws, ticks, history, tasks, disk,
                 TOKEN_FILE, valid_auth>>
(* ANIME_NAME_REGEX.match(filename): a name without a quality tag does not *)
(* match, though VIDEO_GLOB finds it.                                      *)
parse_episode(filename) == filename \in {"[G] A - 01 [720p].mkv", "[G] A - 02 [720p].mkv"}
(* A download or a move puts a file on the disk. *)
add_file ==
    \E path \in { [dir |-> "main", name |-> "[G] A - 01 [720p].mkv"],
                   [dir |-> "stalled", name |-> "[G] A - 01 [720p].mkv"],
                   [dir |-> "stalled", name |-> "[G] A - 02 [720p].mkv"],
                   [dir |-> "main", name |-> "[G] B - 02.mkv"] } :
        /\ path \notin video_files
        /\ video_files' = video_files \cup {path}
        /\ UNCHANGED <<watch_frame, HISTORY_FILE, HISTORY_LOCK_FILE, callers>>
(* write_history_entry as mark_episode calls it for a file on the disk:    *)
(* lock, append, unlock.                                                   *)
write_history_entry ==
    \E path \in video_files, status \in {"watched", "manual"} :
        /\ HISTORY_LOCK_FILE = "free"
        /\ Len(HISTORY_FILE) < MaxHistory
        /\ HISTORY_FILE' = Append(HISTORY_FILE, [status |-> status, path |-> path])
        /\ UNCHANGED <<watch_frame, video_files, HISTORY_LOCK_FILE, callers>>
(* build_library up to the lock: disk_files = _get_disk_files() *)
_get_disk_files(c) ==
    /\ callers[c].pc \in {"idle", "done"}
    /\ callers' = [callers EXCEPT ![c] = [pc |-> "sync", disk_files |-> video_files]]
    /\ UNCHANGED <<watch_frame, video_files, HISTORY_FILE, HISTORY_LOCK_FILE>>
(* sync_history enters "with _history_lock()": flock returns when no other *)
(* caller holds the lock; then entries and known_paths are read.           *)
_history_lock_shared(c) ==
    /\ callers[c].pc = "sync"
    /\ HISTORY_LOCK_FILE' = c
    /\ callers' = [callers EXCEPT ![c] =
                       [pc |-> "locked", disk_files |-> callers[c].disk_files,
                        entries |-> HISTORY_FILE,
                        known_paths |-> {HISTORY_FILE[i].path.name :
                                            i \in 1..Len(HISTORY_FILE)},
                        todo |-> callers[c].disk_files]]
    /\ UNCHANGED <<watch_frame, video_files, HISTORY_FILE>>
_history_lock(c) ==
    /\ callers[c].pc = "sync"
    /\ HISTORY_LOCK_FILE = "free"
    /\ HISTORY_LOCK_FILE' = c
    /\ callers' = [callers EXCEPT ![c] =
                       [pc |-> "locked", disk_files |-> callers[c].disk_files,
                        entries |-> HISTORY_FILE,
                        known_paths |-> {HISTORY_FILE[i].path.name :
                                            i \in 1..Len(HISTORY_FILE)},
                        todo |-> callers[c].disk_files]]
    /\ UNCHANGED <<watch_frame, video_files, HISTORY_FILE>>
(* One round of "for path in disk_files" (a set: any order): a path whose  *)
(* name is not in known_paths gets an entry, appended to entries and to    *)
(* the file.                                                               *)
sync_history(c) ==
    /\ callers[c].pc = "locked"
    /\ \E path \in callers[c].todo :
        LET entry == [status |-> IF path.dir = "stalled" THEN "stalled" ELSE "unwatched",
                      path |-> path]
            new == path.name \notin callers[c].known_paths
        IN  /\ HISTORY_FILE' = IF new THEN Append(HISTORY_FILE, entry) ELSE HISTORY_FILE
            /\ callers' = [callers EXCEPT ![c].todo = @ \ {path},
                                          ![c].entries = IF new THEN Append(@, entry) ELSE @]
            /\ UNCHANGED <<watch_frame, video_files, HISTORY_LOCK_FILE>>
_latest_status_by_filename_first(entries) ==
    [filename \in {entries[i].path.name : i \in 1..Len(entries)} |->
        entries[CHOOSE i \in 1..Len(entries) :
                    /\ entries[i].path.name = filename
                    /\ \A j \in 1..(i - 1) : entries[j].path.name # filename].status]
(* _latest_status_by_filename: later entries overwrite earlier ones *)
RECURSIVE _latest_status_by_filename(_)
_latest_status_by_filename(entries) ==
    IF entries = <<>> THEN [filename \in {} |-> "unwatched"]
    ELSE LET entry == entries[Len(entries)]
         IN  Put(_latest_status_by_filename(SubSeq(entries, 1, Len(entries) - 1)),
                 entry.path.name, entry.status)
_episode_status(path, status_by_filename) ==
    IF path.name \in DOMAIN status_by_filename THEN status_by_filename[path.name]
    ELSE IF path.dir = "stalled" THEN "stalled"
    ELSE "unwatched"
(* The loop is over: the lock is released, sync_history returns entries,   *)
(* and build_library gives every disk file that parses its status.         *)
build_library(c) ==
    /\ callers[c].pc = "locked"
    /\ callers[c].todo = {}
    /\ HISTORY_LOCK_FILE' = "free"
    /\ callers' = [callers EXCEPT ![c] =
           [pc |-> "done",
            library |-> [path \in {f \in callers[c].disk_files : parse_episode(f.name)} |->
                            _episode_status(path,
                                _latest_status_by_filename(callers[c].entries))]]]
    /\ UNCHANGED <<watch_frame, video_files, HISTORY_FILE>>

NextAnime ==
    \/ add_file
    \/ write_history_entry
    \/ \E c \in Callers : _get_disk_files(c)
    \/ \E c \in Callers : _history_lock(c)
    \/ \E c \in Callers : sync_history(c)
    \/ \E c \in Callers : build_library(c)

SpecAnime == Init /\ [][NextAnime]_vars

-----------------------------------------------------------------------------
(* Keys by kind *)
IsCode(key) == key[1] = "code_"
IsRefreshToken(key) == key[1] = "rt_"
IsAccessToken(key) == key[1] = "at_"
IsPending(key) == key[1] = "pending_"
ConsumedCodes == {k \in DOMAIN consumed : IsCode(k)}
ConsumedRefreshTokens == {k \in DOMAIN consumed : IsRefreshToken(k)}
ConsumedPendings == {k \in DOMAIN consumed : IsPending(k)}

(* C1: authorization codes are single-use.  No code is ever exchanged      *)
(* successfully more than once; once a code has been exchanged, every      *)
(* exchange_authorization_code call with it raises the invalid-grant       *)
(* ValueError and load_authorization_code returns None for it.             *)
C1_CodeSingleUse ==
    \A code \in ConsumedCodes :
        /\ consumed[code] = 1
        /\ ExchangeCodeResult(AuthorizationCodeArg(code))
               = ValueError("Invalid authorization code")
        /\ LoadAuthorizationCode(code) = None
        /\ code \notin DOMAIN _auth_codes
C1_Witness ==
    \E code \in ConsumedCodes :
        /\ consumed[code] = 1
        /\ \E token \in DOMAIN issued : issued[token].code = code

(* C2: refresh tokens rotate.  A successful exchange_refresh_token(t, s)   *)
(* removes t, stores exactly one new access token and exactly one new      *)
(* refresh token (the two it returns) and removes nothing else; and a      *)
(* token that has been exchanged is never exchanged again, is not in the   *)
(* store, is not returned by load_refresh_token and fails every exchange.  *)
C2_RotationStep ==
    \A token \in TokenInputs, scopes \in ScopeInputs :
        LET refresh_token == RefreshTokenArg(token)
            result == ExchangeRefreshResult(refresh_token, scopes)
        IN  (exchange_refresh_token_call(refresh_token, scopes) /\ ~IsError(result)) =>
                /\ DOMAIN _tokens' = DOMAIN _tokens \cup {result.access_token.token}
                /\ result.access_token.token \notin DOMAIN _tokens
                /\ DOMAIN _refresh_tokens' =
                       (DOMAIN _refresh_tokens \ {token}) \cup {result.refresh_token.token}
                /\ result.refresh_token.token \notin DOMAIN _refresh_tokens
                /\ result.refresh_token.token # token
C2_Invalidated ==
    \A token \in ConsumedRefreshTokens :
        /\ consumed[token] = 1
        /\ token \notin DOMAIN _refresh_tokens
        /\ LoadRefreshToken(token) = None
        /\ \A scopes \in ScopeInputs :
               ExchangeRefreshResult(RefreshTokenArg(token), scopes)
                   = ValueError("Invalid refresh token")
C2_RefreshRotation == []C2_Invalidated /\ [][C2_RotationStep]_vars
C2_Witness ==
    \E token \in ConsumedRefreshTokens :
        /\ consumed[token] = 1
        /\ \E new \in DOMAIN _refresh_tokens : new[2] > token[2]

(* C3: two exchange_authorization_code tasks created for the same stored   *)
(* code, in whatever order the loop runs them and whatever else runs in    *)
(* between: unless a sweep removed the code before either ran, exactly one *)
(* of them returns a token pair and the other raises the invalid-grant     *)
(* ValueError; in no case do both succeed.                                 *)
Done(t) == tasks[t].pc = "done"
Succeeded(t) == Done(t) /\ ~IsError(tasks[t].result)
Failed(t) == Done(t) /\ tasks[t].result = ValueError("Invalid authorization code")
C3_ExactlyOneWins ==
    \A t1 \in Tasks : \A t2 \in Tasks \ {t1} :
        (Done(t1) /\ Done(t2) /\ tasks[t1].arg.code = tasks[t2].arg.code) =>
            /\ ~(Succeeded(t1) /\ Succeeded(t2))
            /\ (tasks[t1].live /\ tasks[t2].live /\ tasks[t1].arg.code \notin swept) =>
                   \/ Succeeded(t1) /\ Failed(t2)
                   \/ Succeeded(t2) /\ Failed(t1)
C3_Witness ==
    /\ Succeeded("task2") /\ Failed("task1")
    /\ tasks["task1"].arg.code = tasks["task2"].arg.code
    /\ tasks["task1"].live /\ tasks["task2"].live
    /\ IsCode(tasks["task1"].arg.code)

(* C4: round trip.  An access token returned by exchange_authorization_code *)
(* for a code that a login of user u minted stays stored until it is       *)
(* revoked or a sweep finds it expired, and as long as it is stored and    *)
(* unexpired load_access_token returns it and reports user u.              *)
C4_Reports ==
    \A token \in DOMAIN issued :
        (token \in DOMAIN _tokens /\ issued[token].expires_at > now) =>
            /\ LoadAccessToken(token) # None
            /\ LoadAccessToken(token).token = token
            /\ issued[token].code \in DOMAIN login_user
            /\ LoadAccessToken(token).claims.user = login_user[issued[token].code]
C4_Kept ==
    \A token \in DOMAIN issued \cap DOMAIN _tokens :
        token \notin DOMAIN _tokens' =>
            \/ token \in revoked' /\ \E hint \in HintInputs : revoke_token_call(token, hint)
            \/ ~(issued[token].expires_at > now)
C4_RoundTrip == []C4_Reports /\ [][C4_Kept]_vars
C4_Witness ==
    \E token \in DOMAIN issued :
        /\ LoadAccessToken(token) # None
        /\ LoadAccessToken(token).claims.user = "bob"
        /\ login_user[issued[token].code] = "bob"

(* C5: no lookup returns an expired record.  In every state, each of       *)
(* load_authorization_code, load_access_token and load_refresh_token       *)
(* returns None for a stored record whose expires_at <= now; and after any *)
(* of the three calls no record with expires_at <= now is left in the      *)
(* access-token, code, refresh-token or pending store.                     *)
C5_Absent ==
    /\ \A k \in DOMAIN _auth_codes :
           _auth_codes[k].expires_at <= now => LoadAuthorizationCode(k) = None
    /\ \A k \in DOMAIN _tokens :
           _tokens[k].expires_at <= now => LoadAccessToken(k) = None
    /\ \A k \in DOMAIN _refresh_tokens :
           _refresh_tokens[k].expires_at <= now => LoadRefreshToken(k) = None
NoneExpired(store, t) == \A k \in DOMAIN store : store[k].expires_at > t
C5_Removed ==
    ( \/ \E k \in CodeInputs : load_authorization_code_call(k)
      \/ \E k \in TokenInputs : load_access_token_call(k)
      \/ \E k \in TokenInputs : load_refresh_token_call(k) ) =>
        /\ NoneExpired(_auth_codes', now) /\ NoneExpired(_tokens', now)
        /\ NoneExpired(_refresh_tokens', now) /\ NoneExpired(_pending_auths', now)
C5_NoExpiredLookup == []C5_Absent /\ [][C5_Removed]_vars
C5_Witness ==
    /\ \E k \in swept : IsCode(k) /\ k \notin DOMAIN _auth_codes
    /\ \E k \in swept : IsAccessToken(k) /\ k \notin DOMAIN _tokens
                            /\ LoadAccessToken(k) = None

(* C6: an expired grant is never honoured.  An exchange_authorization_code *)
(* call with a stored code whose expires_at <= now, and an                 *)
(* exchange_refresh_token call with a stored refresh token whose           *)
(* expires_at <= now, raises the invalid-grant ValueError and stores no    *)
(* token.                                                                  *)
C6_CodeStep ==
    \A code \in DOMAIN _auth_codes :
        (/\ _auth_codes[code].expires_at <= now
         /\ exchange_authorization_code_call(AuthorizationCodeArg(code))) =>
            /\ IsError(ExchangeCodeResult(AuthorizationCodeArg(code)))
            /\ UNCHANGED <<_tokens, _refresh_tokens>>
C6_RefreshStep ==
    \A token \in DOMAIN _refresh_tokens, scopes \in ScopeInputs :
        (/\ _refresh_tokens[token].expires_at <= now
         /\ exchange_refresh_token_call(RefreshTokenArg(token), scopes)) =>
            /\ IsError(ExchangeRefreshResult(RefreshTokenArg(token), scopes))
            /\ UNCHANGED _tokens
C6_ExpiredGrantRefused == [][C6_CodeStep /\ C6_RefreshStep]_vars

(* C7: exchange_authorization_code is atomic.  For every code an exchange *)
(* has popped, both what another task sees (the five dicts whenever no     *)
(* call is running) and what a restart after a crash sees (the dicts       *)
(* loaded from the file, at any moment) have either the code and neither   *)
(* token of the exchange, or no code and both tokens.                      *)
AllOrNothing(code, data) ==
    \/ /\ code \in DOMAIN data.auth_codes
       /\ minted[code].access_token \notin DOMAIN data.tokens
       /\ minted[code].refresh_token \notin DOMAIN data.refresh_tokens
    \/ /\ code \notin DOMAIN data.auth_codes
       /\ minted[code].access_token \in DOMAIN data.tokens
       /\ minted[code].refresh_token \in DOMAIN data.refresh_tokens
C7_ExchangeAtomic ==
    \A code \in DOMAIN minted :
        /\ db_call.pc = "idle" => AllOrNothing(code, Data)
        /\ AllOrNothing(code, _load(db_file))

(* C8: once revoke_token(t, hint) has returned, load_access_token(t) and  *)
(* load_refresh_token(t) both return None, whatever the hint and whichever *)
(* store held t.                                                           *)
C8_RevokedIsAbsent ==
    \A token \in revoked :
        LoadAccessToken(token) = None /\ LoadRefreshToken(token) = None
C8_Witness ==
    /\ \E token \in revoked :
           /\ token \in DOMAIN issued /\ token \notin swept
           /\ issued[token].expires_at > now
           /\ LoadAccessToken(token) = None
    /\ \E token \in revoked :
           /\ IsRefreshToken(token) /\ token \notin swept
           /\ token \notin DOMAIN consumed
           /\ LoadRefreshToken(token) = None

(* C9: revoke_token is idempotent.  A first call with a token that is in   *)
(* neither store returns None and leaves all five collections unchanged;   *)
(* and once revoke_token(t) has returned, t is in neither store and the    *)
(* two pops of another revoke_token(t) leave both stores as they are.      *)
RevokeResult(token, token_type_hint) == None
C9_Step ==
    \A token \in revoked' \ revoked :
        /\ \A hint \in HintInputs : RevokeResult(token, hint) = None
        /\ (token \notin DOMAIN _tokens /\ token \notin DOMAIN _refresh_tokens)
               => UNCHANGED stores
C9_Again ==
    \A token \in revoked :
        /\ token \notin DOMAIN _tokens /\ token \notin DOMAIN _refresh_tokens
        /\ Popped(_tokens, token) = _tokens
        /\ Popped(_refresh_tokens, token) = _refresh_tokens
C9_RevokeIdempotent == []C9_Again /\ [][C9_Step]_vars
C9_Witness ==
    /\ \E token \in revoked : IsRefreshToken(token) /\ token \in DOMAIN consumed
    /\ \E token \in revoked : IsAccessToken(token) /\ token \notin swept
    /\ DOMAIN _tokens # {}

(* C10: a pending authorization is consumed by at most one successful      *)
(* login.  No pending id ever has more than one successful login, and a    *)
(* consumed one is no longer stored; a POST with valid credentials whose   *)
(* pending id is not stored gets the 400 response and creates no code.     *)
ValidLogin(request) == request.method = "POST" /\ Verified(request)
C10_PendingSingleUse ==
    /\ \A p \in ConsumedPendings :
           consumed[p] = 1 /\ p \notin DOMAIN _pending_auths
    /\ \A request \in LoginInputs :
           (ValidLogin(request) /\ PendingId(request) \notin DOMAIN _pending_auths) =>
               /\ LoginResult(request).status = 400
               /\ AuthCodesAfterLogin(request) = _auth_codes
C10_Witness ==
    \E p \in ConsumedPendings :
        /\ consumed[p] = 1
        /\ LoginResult(LoginRequest("POST", TRUE, p,
                                    [username |-> "admin", password |-> "pw1"])).status = 400
        /\ Cardinality(DOMAIN login_user) = 1

(* C11: a pending authorization never survives past its expiry.  A login  *)
(* POST with valid credentials on a stored pending id whose expires_at <=  *)
(* now gets the 400 response and creates no code.                          *)
C11_ExpiredPendingRefused ==
    \A request \in LoginInputs :
        (/\ ValidLogin(request)
         /\ PendingId(request) \in DOMAIN _pending_auths
         /\ _pending_auths[PendingId(request)].expires_at <= now) =>
            /\ LoginResult(request).status = 400
            /\ AuthCodesAfterLogin(request) = _auth_codes

(* C12: a login POST whose credentials fail verification leaves the        *)
(* pending record it names stored with every field unchanged, creates no   *)
(* code and changes no other collection; the form is shown again.          *)
FailedLogin(request) == request.method = "POST" /\ ~Verified(request)
C12_Kept ==
    \A request \in LoginInputs :
        FailedLogin(request) =>
            /\ PendingAuthsAfterLogin(request) = _pending_auths
            /\ AuthCodesAfterLogin(request) = _auth_codes
            /\ LoginResult(request).status = 200
            /\ LoginResult(request).error = "Invalid username or password"
C12_Step ==
    UNCHANGED stores
        \/ \A request \in LoginInputs :
               ~(FailedLogin(request) /\ _handle_login_call(request))
C12_FailedLoginKeepsPending == []C12_Kept /\ [][C12_Step]_vars
C12_Witness ==
    \E p \in DOMAIN _pending_auths :
        /\ now > 0 /\ _pending_auths[p].expires_at = PENDING_AUTH_LIFETIME
        /\ _pending_auths[p].state = "xyz"
        /\ FailedLogin(LoginRequest("POST", TRUE, p,
                                    [username |-> "admin", password |-> "pw2"]))
        /\ PendingAuthsAfterLogin(LoginRequest("POST", TRUE, p,
               [username |-> "admin", password |-> "pw2"]))[p] = _pending_auths[p]

(* C13: a successful login stores exactly one new authorization code,      *)
(* whose user is the username that was verified and whose expires_at is    *)
(* the time of the login plus 600 s, and removes the pending record it     *)
(* consumed; every other code and pending record stays as it was.          *)
VerifiedUsers ==
    {c.username : c \in {x \in CredentialInputs :
                            _verify_user(x.username, x.password) = "True"}}
C13_Step ==
    \A code \in DOMAIN login_user' \ DOMAIN login_user :
        /\ DOMAIN _auth_codes' = DOMAIN _auth_codes \cup {code}
        /\ code \notin DOMAIN _auth_codes
        /\ \A other \in DOMAIN _auth_codes : _auth_codes'[other] = _auth_codes[other]
        /\ _auth_codes'[code].code = code
        /\ _auth_codes'[code].user = login_user'[code]
        /\ _auth_codes'[code].user \in VerifiedUsers
        /\ _auth_codes'[code].expires_at = now + 600
        /\ \E p \in DOMAIN _pending_auths :
               /\ p \notin DOMAIN consumed /\ p \in DOMAIN consumed' /\ consumed'[p] = 1
               /\ _pending_auths' = Without(_pending_auths, p)
C13_LoginMintsOneCode == [][C13_Step]_vars
C13_Witness ==
    \E code \in DOMAIN _auth_codes :
        /\ code \in DOMAIN login_user /\ login_user[code] = "bob"
        /\ _auth_codes[code].user = "bob"
        /\ _auth_codes[code].expires_at = 2592000 + 600
        /\ Cardinality(ConsumedPendings) = 1

(* C14: the redirect of a successful login is the pending record's        *)
(* redirect_uri, then "?" (or "&" when the redirect_uri already has a      *)
(* query), then code=<code> with the code just minted, then &state=<state> *)
(* exactly when the pending record has a non-empty state, which the        *)
(* parameter then spells.                                                  *)
Redirected(request) == LoginResult(request).status = 302
QueryNames(location) == [i \in DOMAIN location.query |-> location.query[i][1]]
C14_Redirect ==
    \A request \in LoginInputs :
        Redirected(request) =>
            LET pending == _pending_auths[PendingId(request)]
                location == LoginResult(request).location
                minted_code == CHOOSE c \in DOMAIN AuthCodesAfterLogin(request) :
                                   c \notin DOMAIN _auth_codes
            IN  /\ location.redirect_uri = pending.redirect_uri
                /\ location.separator =
                       (IF HasQuery(pending.redirect_uri) THEN "&" ELSE "?")
                /\ location.query[1] = <<"code", minted_code>>
                /\ IF pending.state \notin {"None", ""}
                   THEN /\ QueryNames(location) = <<"code", "state">>
                        /\ Unquote(location.query[2][2]) = pending.state
                   ELSE QueryNames(location) = <<"code">>
C14_Witness ==
    /\ \E request \in LoginInputs :
           /\ Redirected(request)
           /\ LoginResult(request).location.separator = "&"
           /\ Len(LoginResult(request).location.query) = 2
           /\ LoginResult(request).location.query[2] = <<"state", "a+b">>
    /\ \E request \in LoginInputs :
           /\ Redirected(request)
           /\ _pending_auths[PendingId(request)].state = ""
           /\ QueryNames(LoginResult(request).location) = <<"code">>
(* C14 as stated: the separator is "?", and the state parameter is there   *)
(* exactly when the pending record has a state.                            *)
C14_AsStated ==
    \A request \in LoginInputs :
        Redirected(request) =>
            LET pending == _pending_auths[PendingId(request)]
                location == LoginResult(request).location
            IN  /\ location.redirect_uri = pending.redirect_uri
                /\ location.separator = "?"
                /\ location.query[1][1] = "code"
                /\ IF pending.state # "None"
                   THEN /\ QueryNames(location) = <<"code", "state">>
                        /\ Unquote(location.query[2][2]) = pending.state
                   ELSE QueryNames(location) = <<"code">>

(* C15: exchange_refresh_token gives the new access token and the new      *)
(* refresh token, as returned and as stored, the requested scopes when the *)
(* requested list is not empty and the scopes of the stored refresh token  *)
(* otherwise: a token granted <<"read">> refreshed with <<>> yields an     *)
(* access token with <<"read">>.                                           *)
C15_Step ==
    \A token \in DOMAIN _refresh_tokens, scopes \in ScopeInputs :
        LET result == ExchangeRefreshResult(RefreshTokenArg(token), scopes)
            expected == IF Len(scopes) > 0 THEN scopes ELSE _refresh_tokens[token].scopes
        IN  exchange_refresh_token_call(RefreshTokenArg(token), scopes) =>
                /\ result.access_token.scopes = expected
                /\ result.refresh_token.scopes = expected
                /\ _tokens'[result.access_token.token].scopes = expected
                /\ _refresh_tokens'[result.refresh_token.token].scopes = expected
C15_RefreshScopes == [][C15_Step]_vars
C15_Witness ==
    /\ ConsumedRefreshTokens # {}
    /\ \E token \in DOMAIN _tokens \ DOMAIN issued : _tokens[token].scopes = <<"read">>
    /\ \E token \in DOMAIN _refresh_tokens : _refresh_tokens[token].scopes = <<"read">>

(* C16: the access token and the refresh token that a successful           *)
(* exchange_authorization_code stores and returns carry the user, the      *)
(* client_id and the scopes of the stored authorization code it consumed.  *)
Grant(record) == <<record.user, record.client_id, record.scopes>>
C16_Step ==
    \A access \in DOMAIN issued' \ DOMAIN issued :
        LET code == issued'[access].code
            stored == _auth_codes[code]
            result == ExchangeCodeResult(AuthorizationCodeArg(code))
            refreshes == DOMAIN _refresh_tokens' \ DOMAIN _refresh_tokens
        IN  /\ code \in DOMAIN _auth_codes /\ code \notin DOMAIN _auth_codes'
            /\ Grant(_tokens'[access]) = Grant(stored)
            /\ Cardinality(refreshes) = 1
            /\ \A refresh \in refreshes :
                   /\ Grant(_refresh_tokens'[refresh]) = Grant(stored)
                   /\ result.refresh_token.token = refresh
            /\ result.access_token.token = access
            /\ result.access_token.claims.user = stored.user
            /\ result.access_token.client_id = stored.client_id
            /\ result.access_token.scopes = stored.scopes
            /\ result.refresh_token.client_id = stored.client_id
            /\ result.refresh_token.scopes = stored.scopes
C16_TokensCarryGrant == [][C16_Step]_vars
C16_Witness ==
    \E access \in DOMAIN issued \cap DOMAIN _tokens :
        /\ Grant(_tokens[access]) = <<"bob", <<"c1", 0>>, <<"read">>>>
        /\ \E refresh \in DOMAIN _refresh_tokens :
               Grant(_refresh_tokens[refresh]) = Grant(_tokens[access])

(* C17: get_client never returns None.  For an id that is not registered   *)
(* it stores and returns a permissive client with that id and no secret;   *)
(* for a registered id it returns the stored record and stores nothing;    *)
(* a second get_client(id) returns what the first returned and leaves the  *)
(* clients as the first left them.                                         *)
C17_Returns ==
    \A client_id \in GetClientInputs :
        LET client == GetClientResult(client_id)
        IN  /\ client # None
            /\ client.client_id = client_id
            /\ IF client_id \in DOMAIN _clients
               THEN client = _clients[client_id] /\ ClientsAfterGet(client_id) = _clients
               ELSE /\ client.client_secret = NoKey
                    /\ client.redirect_uris = PLACEHOLDER_URIS
                    /\ DOMAIN ClientsAfterGet(client_id) = DOMAIN _clients \cup {client_id}
                    /\ ClientsAfterGet(client_id)[client_id] = client
                    /\ \A other \in DOMAIN _clients :
                           ClientsAfterGet(client_id)[other] = _clients[other]
C17_Again ==
    \A client_id \in GetClientInputs :
        get_client_call(client_id) =>
            /\ GetClientResult(client_id)' = GetClientResult(client_id)
            /\ ClientsAfterGet(client_id)' = _clients'
C17_GetClient == []C17_Returns /\ [][C17_Again]_vars
C17_Witness ==
    /\ <<"c2", 0>> \in DOMAIN _clients
    /\ _clients[<<"c2", 0>>].client_secret = NoKey
    /\ \E client \in registered :
           /\ client.client_id = <<"c1", 0>>
           /\ GetClientResult(<<"c1", 0>>) = client

(* C18: a client record is immutable once created.  No step changes or     *)
(* removes the record stored under an id that has one.                     *)
C18_Step ==
    \A client_id \in DOMAIN _clients :
        /\ client_id \in DOMAIN _clients'
        /\ _clients'[client_id] = _clients[client_id]
C18_ClientImmutable == [][C18_Step]_vars

(* C19: register_client uses the client_id of the request when it has one  *)
(* and otherwise a freshly generated client_ id; the secret is freshly     *)
(* generated and was given to no earlier registration; the client is       *)
(* stored under its id and the stored record is the one returned.          *)
Secrets == {client.client_secret : client \in registered}
C19_Returns ==
    \A client_info \in ClientInfoInputs :
        LET client == RegisterClientResult(client_info)
        IN  /\ IF client_info.client_id \notin {NoKey, EmptyKey}
               THEN client.client_id = client_info.client_id
               ELSE /\ client.client_id[1] = "client_"
                    /\ client.client_id \notin DOMAIN _clients
                    /\ \A earlier \in registered : earlier.client_id # client.client_id
            /\ client.client_secret[1] = "secret_"
            /\ client.client_secret \notin Secrets
            /\ \A stored \in DOMAIN _clients :
                   _clients[stored].client_secret # client.client_secret
C19_Step ==
    \A client_info \in ClientInfoInputs :
        register_client_call(client_info) =>
            LET client == RegisterClientResult(client_info)
            IN  /\ client.client_id \in DOMAIN _clients'
                /\ _clients'[client.client_id] = client
                /\ \A other \in DOMAIN _clients \ {client.client_id} :
                       _clients'[other] = _clients[other]
C19_RegisterClient == []C19_Returns /\ [][C19_Step]_vars
C19_Witness ==
    /\ \E client \in registered : client.client_id[1] = "client_"
    /\ \E first \in registered, second \in registered :
           /\ first.client_id = <<"c1", 0>> /\ second.client_id = <<"c1", 0>>
           /\ first.client_secret # second.client_secret
           /\ _clients[<<"c1", 0>>] = second

(* C20: authorize adds exactly one pending authorization, under an id that *)
(* was never used, holding the client's id ("" when it has none), the      *)
(* request's redirect_uri, scopes (<<>> when None), state and              *)
(* code_challenge, and expires_at = now + 600; the URL it returns is the   *)
(* login page's with that id; no other record or collection changes.       *)
C20_Step ==
    \A pending_id \in DOMAIN _pending_auths' \ DOMAIN _pending_auths :
        /\ pending_id[1] = "pending_"
        /\ pending_id \notin KnownKeys
        /\ DOMAIN _pending_auths' = DOMAIN _pending_auths \cup {pending_id}
        /\ \A other \in DOMAIN _pending_auths :
               _pending_auths'[other] = _pending_auths[other]
        /\ UNCHANGED <<_tokens, _auth_codes, _refresh_tokens, _clients>>
        /\ \E params \in LoginAuthorizeInputs :
               /\ authorize_call(params)
               /\ AuthorizeResult(params)
                      = <<"http://localhost:3001", "/login?pending=", pending_id>>
               /\ _pending_auths'[pending_id] =
                      [client_id |-> IF params.client_id = NoKey THEN EmptyKey
                                     ELSE params.client_id,
                       redirect_uri |-> params.redirect_uri,
                       scopes |-> IF params.scopes = NoScopes THEN <<>>
                                  ELSE params.scopes,
                       state |-> params.state,
                       code_challenge |-> params.code_challenge,
                       expires_at |-> now + 600]
C20_AuthorizeAddsPending == [][C20_Step]_vars
C20_Witness ==
    /\ Cardinality(DOMAIN _pending_auths) = 2
    /\ ConsumedPendings # {}
    /\ \E pending_id \in DOMAIN _pending_auths :
           /\ _pending_auths[pending_id].state = "a b"
           /\ _pending_auths[pending_id].expires_at = 2592000 + 600

(* C21: the store is write-through.  Whenever the process runs (no call is *)
(* cut short), the file holds the five dicts: a TokenDB opened on it loads *)
(* without an exception and holds, for every key of every kind, a record   *)
(* equal field for field to the one in memory, None-valued and             *)
(* False-valued fields included.                                           *)
C21_WriteThrough ==
    Running =>
        /\ ~IsError(_load(db_file))
        /\ _load(db_file) = Data
C21_Witness ==
    /\ Running
    /\ db_file.exists
    /\ \E p \in DOMAIN _pending_auths :
           _pending_auths[p].state = "None" /\ _pending_auths[p].code_challenge = "None"
    /\ \E c \in DOMAIN _auth_codes :
           /\ ~_auth_codes[c].redirect_uri_provided_explicitly
           /\ _auth_codes[c].code_challenge = "None"
    /\ \E c \in DOMAIN _clients : _clients[c].client_secret = NoKey
    /\ DOMAIN _tokens # {} /\ DOMAIN _refresh_tokens # {}
    /\ _load(db_file) = Data

(* C22: opening a TokenDB on a missing file or on a file with corrupt      *)
(* contents raises nothing and leaves all five collections empty.          *)
C22_CorruptStartsEmpty ==
    (db_call.pc = "down" /\ db_file \in CorruptFiles \cup {MissingFile}) =>
        /\ ~IsError(_load(db_file))
        /\ _load(db_file) = EmptyData

(* C23: a sweep removes every access token, refresh token, authorization   *)
(* code and pending authorization whose expires_at <= now, keeps every one *)
(* whose expires_at > now as it was, adds nothing, and leaves the clients  *)
(* as they were.  The steps that sweep are the load_* calls.               *)
C23_Swept(before, after) ==
    /\ DOMAIN after \subseteq DOMAIN before
    /\ \A k \in DOMAIN before :
           /\ before[k].expires_at <= now => k \notin DOMAIN after
           /\ before[k].expires_at > now => (k \in DOMAIN after /\ after[k] = before[k])
C23_Step ==
    (\E key \in KnownKeys \cup {UnknownKey} :
         \/ load_authorization_code_call(key)
         \/ load_access_token_call(key)
         \/ load_refresh_token_call(key)) =>
        /\ C23_Swept(_tokens, _tokens')
        /\ C23_Swept(_refresh_tokens, _refresh_tokens')
        /\ C23_Swept(_auth_codes, _auth_codes')
        /\ C23_Swept(_pending_auths, _pending_auths')
        /\ _clients' = _clients
C23_SweepRemovesExpired == [][C23_Step]_vars
C23_Witness ==
    /\ now = AUTH_CODE_LIFETIME
    /\ \E k \in swept : IsCode(k) /\ k \notin DOMAIN consumed
    /\ \E k \in DOMAIN _tokens : _tokens[k].expires_at > now
    /\ DOMAIN _refresh_tokens # {}
    /\ DOMAIN _clients # {}

(* C24: a save never exposes a half-written file.  Every step of a running *)
(* process that changes the file, a process that dies in the middle of the *)
(* save included, leaves a complete document that loads as the five dicts  *)
(* before the step or as the five dicts after it.                          *)
C24_Step ==
    (Running /\ db_file' # db_file) =>
        /\ db_file'.exists
        /\ db_file'.json = "object"
        /\ ~IsError(_load(db_file'))
        /\ (_load(db_file') = Data \/ _load(db_file') = Data')
C24_NoHalfWrittenFile == [][C24_Step]_vars

(* C25: state created by the authorization server is durable.  An access   *)
(* token that an exchange_authorization_code has returned is held by the   *)
(* server instance started over the same store file, at any later moment,  *)
(* as long as it is unexpired (nothing revokes a token here).              *)
C25_Durable ==
    \A token \in DOMAIN issued :
        issued[token].expires_at > now =>
            /\ ~IsError(_load(db_file))
            /\ token \in DOMAIN _load(db_file).tokens

(* C26: the result of verifying (username, password) depends on the        *)
(* contents of the credential file at the time of the call only, whatever  *)
(* was loaded or called before: it is True when the file has the user with *)
(* that password, False when it has the user with another one, None when   *)
(* it has no such user; a missing file counts as the file the call creates *)
(* (admin with a password nobody has been told).                           *)
C26_FunctionOfFile ==
    \A c \in CredentialInputs :
        _verify_user(c.username, c.password) =
            IF ~htpasswd.exists
            THEN (IF c.username = "admin" THEN "False" ELSE "None")
            ELSE IF c.username \notin DOMAIN htpasswd.users THEN "None"
            ELSE IF htpasswd.users[c.username] = Hash(c.password) THEN "True"
            ELSE "False"
C26_Witness ==
    /\ htpasswd.exists
    /\ _htpasswd # htpasswd
    /\ _verify_user("admin", "pw2") = "True"
    /\ _verify_user("bob", "pw2") = "None"
    /\ \E code \in DOMAIN login_user : login_user[code] = "bob"

(* C27: every failed verification, whether the file is missing, the user   *)
(* is unknown or the password is wrong, returns False and leaves the state *)
(* as it was.                                                              *)
C27_UniformFailure ==
    \A c \in CredentialInputs :
        _verify_user(c.username, c.password) # "True" =>
            /\ _verify_user(c.username, c.password) = "False"
            /\ _load_htpasswd(htpasswd) = htpasswd

C29_Live(code) == code \in DOMAIN _auth_codes /\ _auth_codes[code].expires_at > now
C29_Usable ==
    \A code \in DOMAIN _auth_codes :
        C29_Live(code) =>
            /\ LoadAuthorizationCode(code) # None
            /\ LoadAuthorizationCode(code).code = code
            /\ ~IsError(ExchangeCodeResult(LoadAuthorizationCode(code)))
C29_Step ==
    \A code \in CodeInputs :
        load_authorization_code_call(code) =>
            /\ C23_Swept(_auth_codes, _auth_codes')
            /\ C23_Swept(_tokens, _tokens')
            /\ C23_Swept(_refresh_tokens, _refresh_tokens')
            /\ C23_Swept(_pending_auths, _pending_auths')
            /\ _clients' = _clients
            /\ consumed' = consumed
            /\ C29_Live(code) => C29_Live(code)'
C29_LoadCodeReadOnly == []C29_Usable /\ [][C29_Step]_vars
C29_Witness ==
    /\ \E swept_code \in swept : IsCode(swept_code) /\ swept_code \notin DOMAIN consumed
    /\ \E code \in DOMAIN _auth_codes :
           /\ C29_Live(code)
           /\ code \notin DOMAIN consumed
           /\ ~IsError(ExchangeCodeResult(LoadAuthorizationCode(code)))

(* C30: the expiry sweep is lazy.  After a load_authorization_code,        *)
(* load_access_token or load_refresh_token call none of the four           *)
(* expirable collections holds an expired record; in a step of any other   *)
(* operation the only records that leave a collection are the one the     *)
(* call consumed and the one it revoked, expired or not.                   *)
C30_Removed(before, after) == DOMAIN before \ DOMAIN after
C30_Step ==
    IF \E key \in KnownKeys \cup {UnknownKey} :
           \/ load_authorization_code_call(key)
           \/ load_access_token_call(key)
           \/ load_refresh_token_call(key)
    THEN /\ NoneExpired(_tokens', now) /\ NoneExpired(_refresh_tokens', now)
         /\ NoneExpired(_auth_codes', now) /\ NoneExpired(_pending_auths', now)
    ELSE /\ swept' = swept
         /\ \A k \in C30_Removed(_tokens, _tokens') \cup
                     C30_Removed(_refresh_tokens, _refresh_tokens') \cup
                     C30_Removed(_auth_codes, _auth_codes') \cup
                     C30_Removed(_pending_auths, _pending_auths') :
                \/ k \in revoked' \ revoked
                \/ /\ k \in DOMAIN consumed'
                   /\ k \in DOMAIN consumed => consumed'[k] > consumed[k]
C30_LazySweep == [][C30_Step]_vars
C30_Witness ==
    /\ swept = {}
    /\ \E k \in DOMAIN _pending_auths : _pending_auths[k].expires_at <= now
    /\ \E t \in DOMAIN issued : issued[t].expires_at > ACCESS_TOKEN_LIFETIME
    /\ revoked # {}
    /\ DOMAIN _clients # {}

(* C31: pop_auth_code, pop_refresh_token and pop_pending_auth return the   *)
(* record stored under the key, or None when there is none, and remove it: *)
(* afterwards a get and a second pop of that key give None.  A pop of an   *)
(* absent key leaves the five collections as they were, and a pop changes  *)
(* no other key of its collection and no other collection.                 *)
C31_Returns(store, key) ==
    /\ PopValue(store, key) = IF key \in DOMAIN store THEN store[key] ELSE None
    /\ Get(Popped(store, key), key) = None
    /\ PopValue(Popped(store, key), key) = None
    /\ key \notin DOMAIN store => Popped(store, key) = store
C31_Removed(before, after, key) ==
    /\ key \notin DOMAIN after
    /\ DOMAIN before \ {key} = DOMAIN after
    /\ \A k \in DOMAIN after : after[k] = before[k]
C31_Pops ==
    /\ \A data \in RecordInputs.auth_codes : C31_Returns(_auth_codes, data.code)
    /\ \A data \in RecordInputs.refresh_tokens : C31_Returns(_refresh_tokens, data.token)
    /\ \A input \in RecordInputs.pending_auths : C31_Returns(_pending_auths, input.id)
C31_Step ==
    /\ \A data \in RecordInputs.auth_codes :
           pop_auth_code_call(data.code) =>
               /\ C31_Removed(_auth_codes, _auth_codes', data.code)
               /\ UNCHANGED <<_tokens, _refresh_tokens, _pending_auths, _clients>>
    /\ \A data \in RecordInputs.refresh_tokens :
           pop_refresh_token_call(data.token) =>
               /\ C31_Removed(_refresh_tokens, _refresh_tokens', data.token)
               /\ UNCHANGED <<_tokens, _auth_codes, _pending_auths, _clients>>
    /\ \A input \in RecordInputs.pending_auths :
           pop_pending_auth_call(input.id) =>
               /\ C31_Removed(_pending_auths, _pending_auths', input.id)
               /\ UNCHANGED <<_tokens, _auth_codes, _refresh_tokens, _clients>>
C31_PopRemovesAndReturns == []C31_Pops /\ [][C31_Step]_vars
C31_Witness ==
    /\ Running
    /\ <<"code1", 0>> \notin DOMAIN _auth_codes /\ <<"code2", 0>> \in DOMAIN _auth_codes
    /\ <<"rt", 0>> \notin DOMAIN _refresh_tokens /\ <<"rt2", 0>> \in DOMAIN _refresh_tokens
    /\ <<"pending1", 0>> \notin DOMAIN _pending_auths
    /\ <<"pending2", 0>> \in DOMAIN _pending_auths
    /\ DOMAIN _tokens # {} /\ DOMAIN _clients # {}

(* C32: two login POSTs with valid credentials and the same pending id    *)
(* that are both in flight, in whatever order the loop resumes them:      *)
(* never do both receive a code, and when the pending authorization was   *)
(* stored as each of them was posted, exactly one receives the 302        *)
(* redirect with a code and the other the 400 "Session expired" response. *)
C32_Redirected(t) ==
    /\ tasks[t].pc = "done"
    /\ tasks[t].result.status = 302
    /\ tasks[t].result.code \in DOMAIN login_user
    /\ login_user[tasks[t].result.code] = tasks[t].request.username
C32_Expired(t) ==
    /\ tasks[t].pc = "done"
    /\ tasks[t].result = [status |-> 400, body |-> "Session expired. Please try again."]
C32_OneLoginWins ==
    \A t1 \in Tasks : \A t2 \in Tasks \ {t1} :
        (tasks[t1].pc = "done" /\ tasks[t2].pc = "done") =>
            /\ ~(C32_Redirected(t1) /\ C32_Redirected(t2))
            /\ (tasks[t1].live /\ tasks[t2].live) =>
                   \/ C32_Redirected(t1) /\ C32_Expired(t2)
                   \/ C32_Redirected(t2) /\ C32_Expired(t1)
C32_Witness ==
    /\ C32_Redirected("task2") /\ C32_Expired("task1")
    /\ tasks["task1"].live /\ tasks["task2"].live
    /\ tasks["task1"].request.pending = tasks["task2"].request.pending
    /\ tasks["task1"].request.username # tasks["task2"].request.username

(* C33: revoke_token(t) removes the entries stored under the key t and     *)
(* nothing else: every other access token and refresh token keeps its      *)
(* record, and the codes, pending authorizations and clients are           *)
(* unchanged.  The refresh token minted in the same exchange as a revoked  *)
(* access token, if load_refresh_token returned it before, is returned     *)
(* after and can still be exchanged.                                       *)
C33_Sibling(token) == <<"rt_", token[2] + 1>>
C33_Others(before, after, token) ==
    /\ DOMAIN after = DOMAIN before \ {token}
    /\ \A k \in DOMAIN after : after[k] = before[k]
C33_Usable(token) ==
    /\ LoadRefreshToken(token) # None
    /\ \A scopes \in ScopeInputs :
           ~IsError(ExchangeRefreshResult(LoadRefreshToken(token), scopes))
C33_Step ==
    \A token \in RevokeInputs, token_type_hint \in HintInputs :
        revoke_token_call(token, token_type_hint) =>
            /\ C33_Others(_tokens, _tokens', token)
            /\ C33_Others(_refresh_tokens, _refresh_tokens', token)
            /\ UNCHANGED <<_auth_codes, _pending_auths, _clients>>
            /\ (IsAccessToken(token) /\ C33_Usable(C33_Sibling(token))) =>
                   C33_Usable(C33_Sibling(token))'
C33_RevokeOnlyThatKey == [][C33_Step]_vars
C33_Witness ==
    \E token \in revoked :
        /\ IsAccessToken(token)
        /\ token \notin DOMAIN _tokens
        /\ token \notin swept
        /\ C33_Usable(C33_Sibling(token))
        /\ DOMAIN _tokens # {}
        /\ DOMAIN _clients # {}

(* C34: exchange_refresh_token removes no access token.  Every access      *)
(* token stored before the call is stored after it with the same record,   *)
(* and every token load_access_token returned before is returned after, so *)
(* access tokens of one user and one client are valid side by side.        *)
C34_Step ==
    \A token \in TokenInputs, scopes \in ScopeInputs :
        exchange_refresh_token_call(RefreshTokenArg(token), scopes) =>
            \A t \in DOMAIN _tokens :
                /\ t \in DOMAIN _tokens'
                /\ _tokens'[t] = _tokens[t]
                /\ LoadAccessToken(t) # None => LoadAccessToken(t)' = LoadAccessToken(t)
C34_RefreshKeepsAccessTokens == [][C34_Step]_vars
C34_Witness ==
    \E t1 \in DOMAIN _tokens : \E t2 \in DOMAIN _tokens \ {t1} :
        /\ LoadAccessToken(t1) # None /\ LoadAccessToken(t2) # None
        /\ _tokens[t1].user = _tokens[t2].user
        /\ _tokens[t1].client_id = _tokens[t2].client_id
        /\ t1 \in DOMAIN issued
        /\ C33_Sibling(t1) \in DOMAIN consumed

(* C35: in every state the server reaches, each access token and refresh   *)
(* token is stored under its own token field and each authorization code   *)
(* under its own code field, and no key is in more than one of the         *)
(* access-token, refresh-token, code and pending-authorization dicts.      *)
C35_KeysAreIdentifiers ==
    /\ \A k \in DOMAIN _tokens : _tokens[k].token = k
    /\ \A k \in DOMAIN _refresh_tokens : _refresh_tokens[k].token = k
    /\ \A k \in DOMAIN _auth_codes : _auth_codes[k].code = k
    /\ DOMAIN _tokens \cap DOMAIN _refresh_tokens = {}
    /\ (DOMAIN _tokens \cup DOMAIN _refresh_tokens) \cap DOMAIN _auth_codes = {}
    /\ (DOMAIN _tokens \cup DOMAIN _refresh_tokens \cup DOMAIN _auth_codes)
           \cap DOMAIN _pending_auths = {}
C35_Witness ==
    /\ DOMAIN _tokens # {}
    /\ DOMAIN _refresh_tokens # {}
    /\ DOMAIN _auth_codes # {}
    /\ Cardinality(ConsumedPendings) = 2

(* C36: no token without a login.  Every stored authorization code was     *)
(* minted by a login POST whose credentials were verified, for the user it *)
(* names; every stored access token and refresh token names the user of    *)
(* such a login whose code has been exchanged.  Before the first           *)
(* successful login nothing of the three kinds is stored.                  *)
C36_LoggedIn(user) ==
    /\ user \in VerifiedUsers
    /\ \E code \in DOMAIN login_user :
           login_user[code] = user /\ code \in DOMAIN consumed
C36_NoTokenWithoutLogin ==
    /\ \A k \in DOMAIN _auth_codes :
           /\ k \in DOMAIN login_user
           /\ login_user[k] = _auth_codes[k].user
           /\ _auth_codes[k].user \in VerifiedUsers
    /\ \A k \in DOMAIN _tokens : C36_LoggedIn(_tokens[k].user)
    /\ \A k \in DOMAIN _refresh_tokens : C36_LoggedIn(_refresh_tokens[k].user)
C36_Witness ==
    /\ \E k \in DOMAIN _tokens : _tokens[k].user = "bob"
    /\ \E k \in DOMAIN _refresh_tokens :
           _refresh_tokens[k].user = "bob" /\ ConsumedRefreshTokens # {}

(* C37: the binding data of an authorization request, that is client_id    *)
(* ("" when the client has none), redirect_uri, scopes (the empty list     *)
(* when None) and code_challenge, goes through the flow unchanged.         *)
(* authorize stores it in the pending record, the record keeps it while    *)
(* stored, the login that consumes the record stores it in the code it     *)
(* mints, the code keeps it while stored, and load_authorization_code      *)
(* returns it.                                                             *)
C37_Binding(record) ==
    <<record.client_id, record.redirect_uri, record.scopes, record.code_challenge>>
C37_Passed(params) ==
    <<IF params.client_id = NoKey THEN EmptyKey ELSE params.client_id,
      params.redirect_uri,
      IF params.scopes = NoScopes THEN <<>> ELSE params.scopes,
      params.code_challenge>>
C37_Loaded ==
    \A code \in DOMAIN _auth_codes :
        /\ \E params \in LoginAuthorizeInputs :
               C37_Binding(_auth_codes[code]) = C37_Passed(params)
        /\ LoadAuthorizationCode(code) # None =>
               C37_Binding(LoadAuthorizationCode(code)) = C37_Binding(_auth_codes[code])
C37_Step ==
    /\ \A p \in DOMAIN _pending_auths' \ DOMAIN _pending_auths :
           \E params \in LoginAuthorizeInputs :
               /\ authorize_call(params)
               /\ C37_Binding(_pending_auths'[p]) = C37_Passed(params)
    /\ \A p \in DOMAIN _pending_auths \cap DOMAIN _pending_auths' :
           C37_Binding(_pending_auths'[p]) = C37_Binding(_pending_auths[p])
    /\ \A code \in DOMAIN _auth_codes' \ DOMAIN _auth_codes :
           \E p \in DOMAIN _pending_auths \ DOMAIN _pending_auths' :
               /\ p \notin DOMAIN consumed /\ p \in DOMAIN consumed'
               /\ C37_Binding(_auth_codes'[code]) = C37_Binding(_pending_auths[p])
               /\ LoadAuthorizationCode(code)' # None
               /\ C37_Binding(LoadAuthorizationCode(code)') = C37_Binding(_pending_auths[p])
    /\ \A code \in DOMAIN _auth_codes \cap DOMAIN _auth_codes' :
           C37_Binding(_auth_codes'[code]) = C37_Binding(_auth_codes[code])
C37_BindingCarried == []C37_Loaded /\ [][C37_Step]_vars
C37_Witness ==
    \E c1 \in DOMAIN _auth_codes : \E c2 \in DOMAIN _auth_codes :
        /\ LoadAuthorizationCode(c1) # None /\ LoadAuthorizationCode(c2) # None
        /\ C37_Binding(LoadAuthorizationCode(c1))
               = <<<<"c1", 0>>, "https://app/cb", <<"read">>, "ch">>
        /\ C37_Binding(LoadAuthorizationCode(c2))
               = <<EmptyKey, "https://app/cb?x=1", <<>>, "None">>

(* C38: when load_auth finds tokens of the current server, get_valid_auth  *)
(* returns them, touching nothing, if they expire more than 300 s from     *)
(* now; otherwise it makes one refresh request and returns and saves the   *)
(* refreshed tokens, and only when that request fails does it delete the   *)
(* stored tokens and go on to the credential login.  When load_auth finds  *)
(* none (no file, unreadable contents, tokens of another server) it makes  *)
(* no refresh request, deletes nothing and goes to the credential login at *)
(* once.  The login raises RuntimeError when AUTH_USERNAME or              *)
(* AUTH_PASSWORD is unset.  Stored tokens that expire within 300 s are     *)
(* never returned.                                                         *)
C38_Outcome(r) ==
    LET did == r.call
        stored == r.stored
        fresh == stored # None /\ stored.expires_at > r.at + 300
        credentials == r.env.AUTH_USERNAME # "" /\ r.env.AUTH_PASSWORD # ""
        saved(auth) == [exists |-> TRUE, json |-> "object", members |-> auth]
    IN  /\ fresh =>
               /\ did.value = stored
               /\ did.refreshes = 0 /\ ~did.cleared /\ ~did.login
               /\ did.file = saved(stored)
        /\ (stored # None /\ ~fresh) =>
               /\ did.refreshes = 1
               /\ IF r.refresh_response.ok
                  THEN /\ ~IsError(did.value)
                       /\ did.value.access_token # stored.access_token
                       /\ did.value.refresh_token # stored.refresh_token
                       /\ did.value.expires_at = r.at + r.refresh_response.expires_in
                       /\ ~did.cleared /\ ~did.login
                       /\ did.file = saved(did.value)
                  ELSE /\ did.cleared
                       /\ did.login = credentials
                       /\ did.value # stored
                       /\ IsError(did.value) => did.file = MissingFile
        /\ did.cleared => (did.refreshes = 1 /\ ~r.refresh_response.ok)
        /\ did.login => (credentials /\ (stored = None \/ did.cleared))
        /\ ((stored = None \/ did.cleared) /\ ~credentials) =>
               did.value = RuntimeError(
                   "AUTH_USERNAME and AUTH_PASSWORD environment variables required")
        /\ did.value = stored => fresh
        /\ stored = None => (did.refreshes = 0 /\ ~did.cleared /\ did.login = credentials)
C38_GetValidAuth == valid_auth # None => C38_Outcome(valid_auth)
(* C38 as stated: whenever the stored tokens are not returned, one refresh *)
(* is tried, and the credential login runs only if that refresh failed.    *)
C38_AsStated ==
    valid_auth # None =>
        LET did == valid_auth.call
        IN  /\ did.value # valid_auth.stored => did.refreshes = 1
            /\ did.login => (did.cleared /\ ~valid_auth.refresh_response.ok)
C38_Witness ==
    /\ valid_auth # None
    /\ valid_auth.stored # None
    /\ valid_auth.stored.expires_at = valid_auth.at + 300
    /\ valid_auth.call.refreshes = 1
    /\ valid_auth.call.cleared
    /\ valid_auth.call.login
    /\ ~IsError(valid_auth.call.value)
    /\ TOKEN_FILE = valid_auth.call.file

-----------------------------------------------------------------------------
(* C39: episode status is decided by the last history entry.  When         *)
(* build_library returns, every disk file of its listing that parses is    *)
(* reported, with the status of the last entry of the history file that    *)
(* has its filename (sync_history has just given every file without one    *)
(* its entry); and for a file on the disk whose filename no history entry  *)
(* has, _episode_status gives "stalled" under the stalled directory and    *)
(* "unwatched" elsewhere.                                                  *)
C39_Latest(filename) ==
    LET with == {i \in 1..Len(HISTORY_FILE) : HISTORY_FILE[i].path.name = filename}
    IN  IF with = {} THEN "None"
        ELSE HISTORY_FILE[CHOOSE i \in with : \A j \in with : j <= i].status
C39_Returns(c) ==
    /\ callers[c].pc = "locked"
    /\ callers'[c].pc = "done"
C39_Step ==
    \A c \in Callers :
        C39_Returns(c) =>
            LET library == callers'[c].library
            IN  /\ DOMAIN library = {f \in callers[c].disk_files : parse_episode(f.name)}
                /\ \A path \in DOMAIN library : library[path] = C39_Latest(path.name)'
C39_NoEntry ==
    \A path \in video_files :
        C39_Latest(path.name) = "None" =>
            _episode_status(path, _latest_status_by_filename(HISTORY_FILE)) =
                IF path.dir = "stalled" THEN "stalled" ELSE "unwatched"
-----------------------------------------------------------------------------
(* C40: sync_history is append-only and idempotent.  No step rewrites or   *)
(* removes a line of the history file.  When a sync returns, the lines     *)
(* added since it read the file are its own: exactly one entry, with the   *)
(* initial status of its directory, for each disk file of its listing      *)
(* whose filename had no entry when it read the file; every listed file    *)
(* then has an entry, so a sync over the same files adds nothing.  However *)
(* two callers interleave, no file has two entries with an initial status  *)
(* (in this model sync_history alone writes "unwatched" and "stalled").    *)
C40_Names(entries) == {entries[i].path.name : i \in 1..Len(entries)}
C40_Initial(path) == [status |-> IF path.dir = "stalled" THEN "stalled" ELSE "unwatched", path |-> path]
C40_AppendOnly ==
    /\ Len(HISTORY_FILE') >= Len(HISTORY_FILE)
    /\ SubSeq(HISTORY_FILE', 1, Len(HISTORY_FILE)) = HISTORY_FILE
C40_SyncReturns(c) ==
    /\ callers[c].pc = "locked"
    /\ callers'[c].pc = "done"
    /\ LET new == {path \in callers[c].disk_files : path.name \notin callers[c].known_paths}
           n == Len(HISTORY_FILE) - Cardinality(new)
       IN  /\ n >= 0
           /\ callers[c].known_paths = C40_Names(SubSeq(HISTORY_FILE, 1, n))
           /\ {HISTORY_FILE[i] : i \in (n + 1)..Len(HISTORY_FILE)} =
                  {C40_Initial(path) : path \in new}
           /\ callers[c].entries = HISTORY_FILE
           /\ \A path \in callers[c].disk_files : path.name \in C40_Names(HISTORY_FILE)
C40_Step ==
    /\ C40_AppendOnly
    /\ \A c \in Callers :
          (callers[c].pc = "locked" /\ callers'[c].pc = "done") => C40_SyncReturns(c)
C40_OneEntryPerFile ==
    \A i, j \in 1..Len(HISTORY_FILE) :
        /\ HISTORY_FILE[i].path = HISTORY_FILE[j].path
        /\ HISTORY_FILE[i].status \in {"unwatched", "stalled"}
        /\ HISTORY_FILE[j].status \in {"unwatched", "stalled"}
        => i = j
C40_SyncAppendsOnce == [](C40_OneEntryPerFile) /\ [][C40_Step]_vars
(* One caller has finished the loop of a sync that added nothing, over     *)
(* files an earlier sync gave their entries, while the other caller, with  *)
(* one of these files in its listing, waits for the lock.                  *)
C40_Witness ==
    \E c, d \in Callers :
        /\ callers[c].pc = "locked"
        /\ callers[c].todo = {}
        /\ Cardinality(callers[c].disk_files) >= 2
        /\ callers[c].entries = HISTORY_FILE
        /\ \A path \in callers[c].disk_files : path.name \in callers[c].known_paths
        /\ \A path \in callers[c].disk_files :
              \E i \in 1..Len(HISTORY_FILE) : HISTORY_FILE[i] = C40_Initial(path)
        /\ callers[d].pc = "sync"
        /\ callers[d].disk_files \cap callers[c].disk_files # {}

====
